---- MODULE Spec2Model ----
(***************************************************************************)
(* Model of the "use client" inline-handler plugin                         *)
(* (packages/rolldown-plugin-use-client, swc-based implementation).        *)
(*                                                                         *)
(* Source text is a sequence of lexical units; every unit stands for one   *)
(* UTF-16 code unit of the real text and has a UTF-8 byte width.  The      *)
(* external parser (swc parseSync) is modelled by construction: a source   *)
(* is described by a syntax shape, its text is the print of the shape and  *)
(* its AST is the shape annotated with the 1-based byte spans swc reports. *)
(***************************************************************************)
EXTENDS Integers, Sequences, FiniteSets, TLC

VARIABLES
    options,    \* per plugin instance: the options it was constructed with
    registry,   \* per plugin instance: InlineModuleId -> synthesized text
    chunks,     \* per plugin instance: chunks its host has been asked to emit
    last,       \* record of the last hook call and what it did
    ncalls,     \* number of transform calls made so far
    history     \* per plugin instance: the (id, text) pairs its own transform calls
                \* stored since its last buildStart (observation only)

vars == <<options, registry, chunks, last, ncalls, history>>

(***************************************************************************)
(* Bounds                                                                  *)
(***************************************************************************)
MaxStmts == 2       \* top-level statements of a generated source
MaxCalls == 3       \* transform calls in one behaviour of Spec
MaxText == 3        \* code units of a text handed to the span utilities on their own

(***************************************************************************)
(* Small helpers                                                           *)
(***************************************************************************)
Max(a, b) == IF a >= b THEN a ELSE b

RECURSIVE Flatten(_)
Flatten(ss) == IF ss = <<>> THEN <<>> ELSE Head(ss) \o Flatten(Tail(ss))

RECURSIVE SumSeq(_)
SumSeq(s) == IF s = <<>> THEN 0 ELSE Head(s) + SumSeq(Tail(s))

Slice(s, from, to) ==
    \* String.prototype.slice(from, to) on 0-based code-unit indices
    LET n == Len(s)
        f == IF from > n THEN n ELSE from
        t == IF to > n THEN n ELSE to
    IN  IF f >= t THEN <<>> ELSE SubSeq(s, f + 1, t)

Range(s) == {s[k] : k \in DOMAIN s}

(***************************************************************************)
(* Lexical units                                                           *)
(***************************************************************************)
UseClientString == "'use client'"
IsWhitespace(u) == u \in {" ", "\n"}

\* A supplementary character is two units: a high surrogate followed by a low one.
IsHighSurrogate(u) == u = "hi_surrogate"

utf8ByteLength(u) ==
    \* UTF-8 width of the code point that starts at unit u
    IF u = "e_acute" THEN 2
    ELSE IF u \in {"euro", "BOM"} THEN 3
    ELSE IF IsHighSurrogate(u) THEN 4
    ELSE 1

(***************************************************************************)
(* Syntax shapes: what the parser sees.  A shape has a node type, a value  *)
(* (identifier name or literal value), flags, and parts in source order;   *)
(* a part is a lexical unit or a child under an AST key.                   *)
(***************************************************************************)
NoShape == [type |-> "<null>", value |-> "", flags |-> {}, parts |-> <<>>]

Tok(t) == [kind |-> "tok", tok |-> t, key |-> "", arr |-> FALSE, node |-> NoShape]
Kid(k, sh) == [kind |-> "kid", tok |-> "", key |-> k, arr |-> FALSE, node |-> sh]
Elem(k, sh) == [kind |-> "kid", tok |-> "", key |-> k, arr |-> TRUE, node |-> sh]
Shape(t, v, f, ps) == [type |-> t, value |-> v, flags |-> f, parts |-> ps]

RECURSIVE PrintShape(_)
PrintShape(sh) ==
    LET PrintPart(p) == IF p.kind = "tok" THEN <<p.tok>> ELSE PrintShape(p.node)
    IN  Flatten([i \in 1..Len(sh.parts) |-> PrintPart(sh.parts[i])])

Ident(name)  == Shape("Identifier", name, {}, <<Tok(name)>>)
Str(v, raw)  == Shape("StringLiteral", v, {}, <<Tok(raw)>>)
Num(raw)     == Shape("NumericLiteral", raw, {}, <<Tok(raw)>>)
KidsOf(k, shs) == [i \in 1..Len(shs) |-> Elem(k, shs[i])]   \* an array-valued field
ExprStmt(e)  == Shape("ExpressionStatement", "", {}, <<Kid("expression", e), Tok(";")>>)
Return(e)    == Shape("ReturnStatement", "", {}, <<Tok("return"), Kid("argument", e), Tok(";")>>)
Block(stmts) == Shape("BlockStatement", "", {},
                      <<Tok("{")>> \o KidsOf("stmts", stmts) \o <<Tok("}")>>)
Arrow(params, body) ==
    Shape("ArrowFunctionExpression", "", {},
          <<Tok("(")>> \o KidsOf("params", params) \o <<Tok(")"), Tok("=>"), Kid("body", body)>>)
Param(name) == Shape("Parameter", "", {}, <<Kid("pat", Ident(name))>>)
FnDecl(name, params, body) ==
    Shape("FunctionDeclaration", "", {},
          <<Tok("function"), Kid("identifier", Ident(name)), Tok("(")>>
          \o KidsOf("params", params) \o <<Tok(")"), Kid("body", body)>>)
FnExpr(name, params, body) ==
    Shape("FunctionExpression", "", {},
          <<Tok("function")>>
          \o (IF name = "" THEN <<>> ELSE <<Kid("identifier", Ident(name))>>)
          \o <<Tok("(")>> \o KidsOf("params", params) \o <<Tok(")"), Kid("body", body)>>)
Call(callee, args) ==
    Shape("CallExpression", "", {},
          <<Kid("callee", callee), Tok("(")>>
          \o Flatten([i \in 1..Len(args) |->
                         (IF i > 1 THEN <<Tok(",")>> ELSE <<>>)
                         \o <<Elem("arguments",         \* { spread, expression }
                                 Shape("", "", {}, <<Kid("expression", args[i])>>))>>])
          \o <<Tok(")")>>)
New(callee) ==
    Shape("NewExpression", "", {}, <<Tok("new"), Kid("callee", callee), Tok("("), Tok(")")>>)
Tagged(tag) ==
    Shape("TaggedTemplateExpression", "", {},
          <<Kid("tag", tag),
            Kid("template", Shape("TemplateLiteral", "", {},
                <<Elem("quasis", Shape("TemplateElement", "", {}, <<Tok("tpl")>>))>>))>>)
Declarator(name, init) ==
    Shape("VariableDeclarator", "", {}, <<Kid("id", Ident(name)), Tok("="), Kid("init", init)>>)
VarDecl(kind, name, init) ==
    Shape("VariableDeclaration", "", {},
          <<Tok(kind), Elem("declarations", Declarator(name, init)), Tok(";")>>)
ExportDecl(decl) ==
    Shape("ExportDeclaration", "", {}, <<Tok("export"), Kid("declaration", decl)>>)
ExportDefaultDecl(fn) ==
    Shape("ExportDefaultDeclaration", "", {}, <<Tok("export"), Tok("default"), Kid("decl", fn)>>)
ImportSpec(name) ==
    Shape("ImportSpecifier", "", {}, <<Kid("local", Ident(name))>>)
Import(flags, specs, from) ==
    Shape("ImportDeclaration", "", flags,
          <<Tok("import")>>
          \o (IF "typeOnly" \in flags THEN <<Tok("type")>> ELSE <<>>)
          \o (IF "bare" \in flags THEN <<>>
              ELSE <<Tok("{")>> \o KidsOf("specifiers", specs) \o <<Tok("}"), Tok("from")>>)
          \o <<Kid("source", Str(from, from)), Tok(";")>>)
Try(block, param, body) ==
    Shape("TryStatement", "", {},
          <<Tok("try"), Kid("block", block),
            Kid("handler", Shape("CatchClause", "", {},
                                 <<Tok("catch"), Tok("("), Kid("param", Ident(param)), Tok(")"),
                                   Kid("body", body)>>))>>)
ClassMethod(name, params, body) ==
    \* swc: { type: "ClassMethod", key, function: { params, body, ... } }; the inner
    \* function object carries no type.
    Shape("ClassMethod", "", {},
          <<Kid("key", Ident(name)),
            Kid("function", Shape("", "", {},
                <<Tok("(")>> \o KidsOf("params", params) \o <<Tok(")"), Kid("body", body)>>))>>)
ClassDecl(name, members) ==
    Shape("ClassDeclaration", "", {},
          <<Tok("class"), Kid("identifier", Ident(name)), Tok("{")>>
          \o KidsOf("body", members) \o <<Tok("}")>>)

Directive == ExprStmt(Str("use client", UseClientString))


(***************************************************************************)
(* The parser (swc parseSync, external).  Spans are 1-based UTF-8 byte     *)
(* offsets shifted by a base the parser carries over from earlier parses.  *)
(***************************************************************************)
\* `at` is the node's true code-unit range; only the printer model reads it.
Null == [type |-> "<null>", value |-> "", flags |-> {}, span |-> <<0, 0>>, at |-> <<0, 0>>,
         kids |-> <<>>]

RECURSIVE ByteOffsetTable(_, _)
ByteOffsetTable(code, n) ==
    \* t[idx + 1] is the UTF-8 byte offset of code-unit index idx, for idx in 0..n
    IF n = 0 THEN <<0>>
    ELSE LET t == ByteOffsetTable(code, n - 1)
         IN  Append(t, IF n >= 2 /\ IsHighSurrogate(code[n - 1])
                       THEN t[n - 1] + 4
                       ELSE t[n] + utf8ByteLength(code[n]))

RECURSIVE Annotate(_, _, _, _)
RECURSIVE AnnotateParts(_, _, _, _, _)
AnnotateParts(parts, i, pos, bytes, base) ==
    \* the children among parts[i..], and the position after the last part
    IF i > Len(parts) THEN [kids |-> <<>>, end |-> pos]
    ELSE LET p == parts[i]
         IN  IF p.kind = "tok"
             THEN AnnotateParts(parts, i + 1, pos + 1, bytes, base)
             ELSE LET n    == Annotate(p.node, pos, bytes, base)
                      rest == AnnotateParts(parts, i + 1, n.at[2], bytes, base)
                  IN  [kids |-> <<[key |-> p.key, arr |-> p.arr, node |-> n]>> \o rest.kids,
                       end  |-> rest.end]

Annotate(sh, pos, bytes, base) ==
    LET r == AnnotateParts(sh.parts, 1, pos, bytes, base)
    IN  [type  |-> sh.type,
         value |-> sh.value,
         flags |-> sh.flags,
         span  |-> <<bytes[pos + 1] + 1 + base, bytes[r.end + 1] + 1 + base>>,
         at    |-> <<pos, r.end>>,
         kids  |-> r.kids]

(***************************************************************************)
(* AST access: node[key] as the code reads it                              *)
(***************************************************************************)
isSwcNode(n) == n # Null
getNodeType(n) == n.type                \* "" when the object carries no type
HasType(n) == n # Null /\ n.type # ""

getNodeArray(n, key) ==
    \* getNodeArray(node[key]): the elements of an array-valued field
    LET ks == SelectSeq(n.kids, LAMBDA k : k.key = key)
    IN  [i \in 1..Len(ks) |-> ks[i].node]

Field(n, key) ==
    \* node[key] for a node-valued field, Null when absent
    LET ks == getNodeArray(n, key)
    IN  IF ks = <<>> THEN Null ELSE ks[1]

getIdentifierValue(n) ==
    \* "" stands for null
    IF n = Null THEN "" ELSE n.value


(***************************************************************************)
(* Byte/index mapper and span utilities                                    *)
(***************************************************************************)
IsPairAt(code, i) ==
    \* codePointAt(i) > 0xffff (i is a 0-based index)
    /\ i + 2 <= Len(code)
    /\ IsHighSurrogate(code[i + 1])
    /\ code[i + 2] = "lo_surrogate"

CodePointByteLengthBmp(code, i) ==
    \* takes every code unit for a character of its own
    IF IsHighSurrogate(code[i + 1]) \/ code[i + 1] = "lo_surrogate" THEN 3
    ELSE utf8ByteLength(code[i + 1])

CodePointByteLength(code, i) ==
    IF IsPairAt(code, i) THEN 4
    ELSE IF IsHighSurrogate(code[i + 1]) \/ code[i + 1] = "lo_surrogate" THEN 3
    ELSE utf8ByteLength(code[i + 1])

RECURSIVE BuildByteOffsets(_, _, _)
BuildByteOffsets(code, i, byteOffset) ==
    \* the entries the for loop of createByteOffsetLookup pushes from index i on
    IF i >= Len(code) THEN <<>>
    ELSE LET next      == byteOffset + CodePointByteLength(code, i)
             nextIndex == IF IsPairAt(code, i) THEN i + 2 ELSE i + 1
         IN  <<[byteOffset |-> next, index |-> nextIndex]>>
             \o BuildByteOffsets(code, nextIndex, next)

createByteOffsetLookup(code) ==
    LET pushed == BuildByteOffsets(code, 0, 0)
    IN  [byteOffsets |-> <<0>> \o [k \in 1..Len(pushed) |-> pushed[k].byteOffset],
         indices     |-> <<0>> \o [k \in 1..Len(pushed) |-> pushed[k].index]]

RECURSIVE BinarySearch(_, _, _, _)
BinarySearch(lk, target, lo, hi) ==
    IF lo > hi THEN lk.indices[Max(0, hi) + 1]
    ELSE LET mid       == (lo + hi) \div 2
             midOffset == lk.byteOffsets[mid + 1]
         IN  IF midOffset = target THEN lk.indices[mid + 1]
             ELSE IF midOffset < target THEN BinarySearch(lk, target, mid + 1, hi)
             ELSE BinarySearch(lk, target, lo, mid - 1)

toIndex(lk, target) ==
    LET lastIndex == Len(lk.byteOffsets) - 1
    IN  IF target <= 0 THEN 0
        ELSE IF target >= lk.byteOffsets[lastIndex + 1] THEN lk.indices[lastIndex + 1]
        ELSE BinarySearch(lk, target, 0, lastIndex)

At(code, i) == IF i >= 0 /\ i < Len(code) THEN code[i + 1] ELSE "<undefined>"

RECURSIVE SkipToLineEnd(_, _)
SkipToLineEnd(code, i) ==
    IF i < Len(code) /\ At(code, i) # "\n" /\ At(code, i) # "\r"
    THEN SkipToLineEnd(code, i + 1) ELSE i

RECURSIVE SkipBlockComment(_, _)
SkipBlockComment(code, i) ==
    IF i >= Len(code) THEN i
    ELSE IF At(code, i) = "*" /\ At(code, i + 1) = "/" THEN i + 2
    ELSE SkipBlockComment(code, i + 1)

RECURSIVE FirstTokenFrom(_, _, _)
FirstTokenFrom(code, i, shebangIndex) ==
    IF i >= Len(code) THEN i
    ELSE LET char == At(code, i)
         IN  IF IsWhitespace(char) \/ char = "BOM"
             THEN FirstTokenFrom(code, i + 1, shebangIndex)
             ELSE IF char = "#" /\ At(code, i + 1) = "!" /\ i = shebangIndex
             THEN FirstTokenFrom(code, SkipToLineEnd(code, i + 2), shebangIndex)
             ELSE IF char = "/" /\ At(code, i + 1) = "/"
             THEN FirstTokenFrom(code, SkipToLineEnd(code, i + 2), shebangIndex)
             ELSE IF char = "/" /\ At(code, i + 1) = "*"
             THEN FirstTokenFrom(code, SkipBlockComment(code, i + 2), shebangIndex)
             ELSE i

findFirstTokenIndex(code) ==
    LET i == IF At(code, 0) = "BOM" THEN 1 ELSE 0
    IN  FirstTokenFrom(code, i, i)

EncodedLength(s) ==
    \* new TextEncoder().encode(s).length
    LET lk == createByteOffsetLookup(s)
    IN  lk.byteOffsets[Len(lk.byteOffsets)]

getSwcSpanBaseOffsetOfStart(ast, code) ==
    \* takes the module to start at byte 0 of the text
    Max(0, ast.span[1] - 1)

getSwcSpanBaseOffset(ast, code) ==
    LET moduleStart          == ast.span[1]
        firstTokenIndex      == findFirstTokenIndex(code)
        firstTokenByteOffset == EncodedLength(Slice(code, 0, firstTokenIndex))
    IN  Max(0, moduleStart - firstTokenByteOffset - 1)

getStart(node, offset, lk) ==
    LET absolute == Max(0, node.span[1] - 1 - offset)
    IN  Max(0, toIndex(lk, absolute))

getEnd(node, offset, lk) ==
    LET absolute == Max(0, node.span[2] - 1 - offset)
    IN  Max(0, toIndex(lk, absolute))

getSpanWithParens(node, code, offset, lk) ==
    LET start == getStart(node, offset, lk)
        end   == getEnd(node, offset, lk)
    IN  IF start > 0 /\ At(code, start) = ")" /\ At(code, start - 1) = "("
        THEN [start |-> start - 1, end |-> end]
        ELSE [start |-> start, end |-> end]

RECURSIVE TrimWhitespace(_, _, _)
TrimWhitespace(code, start, end) ==
    IF end > start /\ IsWhitespace(At(code, end - 1))
    THEN TrimWhitespace(code, start, end - 1) ELSE end

trimForReplacement(span, code) ==
    LET end1 == TrimWhitespace(code, span.start, span.end)
        end2 == IF end1 > span.start /\ At(code, end1 - 1) = ";"
                THEN TrimWhitespace(code, span.start, end1 - 1)
                ELSE end1
    IN  [start |-> span.start, end |-> end2]


(***************************************************************************)
(* Scope and reference analyzer                                            *)
(***************************************************************************)
GLOBALS == {"undefined", "console", "window", "document", "fetch", "URL", "FormData",
            "Promise", "Error", "arguments"}

RECURSIVE collectDeclaredFromPattern(_)
collectDeclaredFromPattern(pattern) ==
    \* the names the pattern adds to its target set
    IF ~HasType(pattern) THEN {}
    ELSE CASE pattern.type = "Parameter" -> collectDeclaredFromPattern(Field(pattern, "pat"))
           [] pattern.type = "Identifier" -> IF pattern.value # "" THEN {pattern.value} ELSE {}
           [] pattern.type = "ObjectPattern" ->
                LET props == getNodeArray(pattern, "properties")
                    Of(prop) ==
                        CASE prop.type = "KeyValuePatternProperty" ->
                                 collectDeclaredFromPattern(Field(prop, "value"))
                          [] prop.type = "AssignmentPatternProperty" ->
                                 collectDeclaredFromPattern(Field(prop, "key"))
                          [] prop.type = "RestElement" ->
                                 collectDeclaredFromPattern(Field(prop, "argument"))
                          [] OTHER -> {}
                IN  UNION {Of(props[i]) : i \in 1..Len(props)}
           [] pattern.type = "ArrayPattern" ->
                LET elements == getNodeArray(pattern, "elements")
                    Of(element) ==
                        IF element.type = "RestElement"
                        THEN collectDeclaredFromPattern(Field(element, "argument"))
                        ELSE collectDeclaredFromPattern(element)
                IN  UNION {Of(elements[i]) : i \in 1..Len(elements)}
           [] pattern.type = "RestElement" -> collectDeclaredFromPattern(Field(pattern, "argument"))
           [] pattern.type = "AssignmentPattern" -> collectDeclaredFromPattern(Field(pattern, "left"))
           [] OTHER -> {}

TS_VALUE_WRAPPERS == {"TsAsExpression", "TsTypeAssertion", "TsNonNullExpression",
                      "TsSatisfiesExpression", "TsInstantiation"}

isTypeOnlyNode(node) ==
    /\ HasType(node)
    /\ node.type \in TS_VALUE_WRAPPERS \cup       \* nodeType.startsWith("Ts")
           {"TsEnumDeclaration", "TsConstEnumDeclaration", "TsTypeAnnotation",
            "TsTypeReference", "TsTypeAliasDeclaration", "TsInterfaceDeclaration",
            "TsKeywordType", "TsTypeParameterDeclaration"}
    /\ node.type \notin TS_VALUE_WRAPPERS
    /\ node.type \notin {"TsEnumDeclaration", "TsConstEnumDeclaration"}

isIdentifierReference(node, parent) ==
    IF parent = Null THEN TRUE
    ELSE LET parentType == getNodeType(parent)
             computed   == "computed" \in parent.flags
         IN  CASE parentType = "VariableDeclarator" -> Field(parent, "init") = node
               [] parentType \in {"FunctionDeclaration", "FunctionExpression",
                                  "ArrowFunctionExpression"} ->
                      \/ Field(parent, "body") = node
                      \/ Field(parent, "returnType") = node
                      \/ Field(parent, "typeParameters") = node
                      \/ Field(parent, "asserts") = node
               [] parentType \in {"ClassDeclaration", "ClassExpression"} ->
                      Field(parent, "superClass") = node
               [] parentType \in {"ClassMethod", "ClassPrivateMethod", "ClassProperty",
                                  "ClassPrivateProperty", "KeyValueProperty"} ->
                      ~(Field(parent, "key") = node /\ ~computed)
               [] parentType \in {"MemberExpression", "OptionalMemberExpression"} ->
                      ~(Field(parent, "property") = node /\ ~computed)
               [] parentType \in {"LabeledStatement", "BreakStatement", "ContinueStatement",
                                  "ImportSpecifier", "ImportDefaultSpecifier",
                                  "ImportNamespaceSpecifier"} -> FALSE
               [] parentType = "ExportSpecifier" -> Field(parent, "local") = node
               [] OTHER -> TRUE

isDeclared(scopes, name) == \E i \in 1..Len(scopes) : name \in scopes[i]

AddToCurrent(scopes, names) ==
    [scopes EXCEPT ![Len(scopes)] = @ \cup names]

\* collectReferences mutates `scopes` and `out`; here it returns both.  `out` is a
\* Set: its elements in insertion order.
RECURSIVE collectReferences(_, _, _, _)

RECURSIVE CollectEach(_, _, _, _)
RECURSIVE CollectParams(_, _, _, _)
RECURSIVE CollectDeclarators(_, _, _)
RECURSIVE CollectGeneric(_, _, _, _)

PopScopes(r, n) == [scopes |-> SubSeq(r.scopes, 1, n), out |-> r.out]   \* scopes.pop()

CollectEach(nodes, i, st, parent) ==
    IF i > Len(nodes) THEN st
    ELSE CollectEach(nodes, i + 1,
                     collectReferences(nodes[i], st.scopes, st.out, parent), parent)

AfterDefault(params, i, n, r) ==
    \* the parameter scope sits on top of the n outer scopes while a default is read
    CollectParams(params, i + 1, PopScopes(r, n), r.scopes[Len(r.scopes)])

CollectParams(params, i, st, scope) ==
    \* st.scopes are the outer scopes; returns [scopes, out, scope]
    IF i > Len(params) THEN [scopes |-> st.scopes, out |-> st.out, scope |-> scope]
    ELSE IF getNodeType(params[i]) = "AssignmentPattern"
    THEN AfterDefault(params, i, Len(st.scopes),
             collectReferences(Field(params[i], "right"),
                 Append(st.scopes, scope \cup collectDeclaredFromPattern(params[i])),
                 st.out, params[i]))
    ELSE CollectParams(params, i + 1, st, scope \cup collectDeclaredFromPattern(params[i]))

CollectDeclarators(decls, i, st) ==
    IF i > Len(decls) THEN st
    ELSE CollectDeclarators(decls, i + 1,
             collectReferences(Field(decls[i], "init"),
                 AddToCurrent(st.scopes, collectDeclaredFromPattern(Field(decls[i], "id"))),
                 st.out, decls[i]))

ExpressionOf(child, isElement, st, node) ==
    \* an array element or typed child that wraps an expression ({ spread, expression })
    IF (isElement \/ HasType(child)) /\ HasType(Field(child, "expression"))
    THEN collectReferences(Field(child, "expression"), st.scopes, st.out, node) ELSE st

CollectGeneric(kids, i, st, node) ==
    \* the trailing for (const key of Object.keys(node)) loop
    IF i > Len(kids) THEN st
    ELSE CollectGeneric(kids, i + 1,
             ExpressionOf(kids[i].node, kids[i].arr,
                 IF HasType(kids[i].node)
                 THEN collectReferences(kids[i].node, st.scopes, st.out, node) ELSE st,
                 node),
             node)

InFunction(p, node, n) ==
    \* the body is read under the scope holding the function's name and parameters
    PopScopes(collectReferences(Field(node, "body"), Append(p.scopes, p.scope), p.out, node), n)

NameScope(node) ==
    IF getIdentifierValue(Field(node, "identifier")) # ""
    THEN {getIdentifierValue(Field(node, "identifier"))} ELSE {}

collectReferences(node, scopes, out, parent) ==
    LET st == [scopes |-> scopes, out |-> out]
    IN
    IF ~isSwcNode(node) THEN st
    ELSE IF isTypeOnlyNode(node) THEN st
    ELSE IF getNodeType(node) = "" THEN st
    ELSE IF node.type = "Identifier"
    THEN IF node.value # "" /\ isIdentifierReference(node, parent) /\ ~isDeclared(scopes, node.value)
         THEN [st EXCEPT !.out = IF node.value \in Range(@) THEN @
                                 ELSE Append(@, node.value)]
         ELSE st
    ELSE IF node.type \in {"ImportDeclaration", "ImportSpecifier", "ImportDefaultSpecifier",
                           "ImportNamespaceSpecifier", "ExportDeclaration",
                           "ExportNamedDeclaration", "ExportAllDeclaration",
                           "ExportDefaultDeclaration"}
    THEN st
    ELSE IF node.type \in {"FunctionDeclaration", "FunctionExpression", "ArrowFunctionExpression"}
    THEN InFunction(CollectParams(getNodeArray(node, "params"), 1, st, NameScope(node)),
                    node, Len(scopes))
    ELSE IF node.type \in {"BlockStatement", "Program"}
    THEN PopScopes(CollectEach(getNodeArray(node, IF node.type = "Program" THEN "body" ELSE "stmts"),
                               1, [scopes |-> Append(scopes, {}), out |-> out], node),
                   Len(scopes))
    ELSE IF node.type = "VariableDeclaration"
    THEN CollectDeclarators(getNodeArray(node, "declarations"), 1, st)
    ELSE IF node.type \in {"ClassDeclaration", "ClassExpression"}
    THEN \* node.body is swc's member array, so classBody?.body is undefined and no
         \* member is visited
         collectReferences(Field(node, "superClass"), AddToCurrent(scopes, NameScope(node)),
                           out, node)
    ELSE IF node.type \in {"ObjectMethod", "ClassMethod", "ClassPrivateMethod", "ClassProperty",
                           "ClassPrivateProperty", "ObjectProperty"}
    THEN LET keyed == IF Field(node, "key") # Null /\ "computed" \in node.flags
                      THEN collectReferences(Field(node, "key"), scopes, out, node) ELSE st
         IN  collectReferences(Field(node, "value"), keyed.scopes, keyed.out, node)
    ELSE CollectGeneric(node.kids, 1, st, node)


(***************************************************************************)
(* Safety check: callable use of a hoisted handler name                    *)
(***************************************************************************)
UnwrapExport(stmt) ==
    IF getNodeType(stmt) = "ExportDeclaration" /\ Field(stmt, "declaration") # Null
    THEN Field(stmt, "declaration") ELSE stmt

collectScopeDeclarations(scopeNode, targetFunctionNode) ==
    \* the names the scope node adds to `out`
    LET scopeType == getNodeType(scopeNode)
        stmts == IF scopeType = "Program" THEN getNodeArray(scopeNode, "body")
                 ELSE IF scopeType = "BlockStatement" THEN getNodeArray(scopeNode, "stmts")
                 ELSE <<>>
        OfStmt(stmt) ==
            LET target     == UnwrapExport(stmt)
                targetType == getNodeType(target)
            IN  IF target = targetFunctionNode THEN {}
                ELSE IF targetType = "VariableDeclaration"
                THEN LET decls == getNodeArray(target, "declarations")
                     IN  UNION {collectDeclaredFromPattern(Field(decls[i], "id")) : i \in 1..Len(decls)}
                ELSE IF targetType \in {"FunctionDeclaration", "ClassDeclaration",
                                        "TsEnumDeclaration", "TsConstEnumDeclaration"}
                THEN LET viaIdentifier == getIdentifierValue(Field(target, "identifier"))
                         name == IF viaIdentifier # "" THEN viaIdentifier
                                 ELSE getIdentifierValue(Field(target, "id"))
                     IN  IF name # "" THEN {name} ELSE {}
                ELSE IF targetType = "ImportDeclaration"
                THEN LET specs == getNodeArray(target, "specifiers")
                     IN  {getIdentifierValue(Field(specs[i], "local")) : i \in 1..Len(specs)} \ {""}
                ELSE {}
    IN  IF scopeType = "" THEN {}
        ELSE IF scopeType \in {"FunctionDeclaration", "FunctionExpression", "ArrowFunctionExpression"}
        THEN LET identifierName == getIdentifierValue(Field(scopeNode, "identifier"))
                 params == getNodeArray(scopeNode, "params")
             IN  (IF identifierName # "" THEN {identifierName} ELSE {})
                 \cup UNION {collectDeclaredFromPattern(params[i]) : i \in 1..Len(params)}
        ELSE IF scopeType = "CatchClause"
        THEN collectDeclaredFromPattern(Field(scopeNode, "param"))
        ELSE UNION {OfStmt(stmts[i]) : i \in 1..Len(stmts)}

isScopeNodeType(nodeType) ==
    nodeType \in {"Program", "BlockStatement", "FunctionDeclaration", "FunctionExpression",
                  "ArrowFunctionExpression", "CatchClause"}

isCallableIdentifierUseWithoutNew(node, parent) ==
    \* forgets that `new Name()` calls Name
    /\ parent # Null
    /\ getNodeType(parent) # ""
    /\ \/ /\ getNodeType(parent) \in {"CallExpression", "OptionalCallExpression"}
          /\ Field(parent, "callee") = node
       \/ /\ getNodeType(parent) = "TaggedTemplateExpression"
          /\ Field(parent, "tag") = node

isCallableIdentifierUse(node, parent) ==
    /\ parent # Null
    /\ getNodeType(parent) # ""
    /\ \/ /\ getNodeType(parent) \in {"CallExpression", "OptionalCallExpression", "NewExpression"}
          /\ Field(parent, "callee") = node
       \/ /\ getNodeType(parent) = "TaggedTemplateExpression"
          /\ Field(parent, "tag") = node

\* The stack walk of hasUnsafeCallableUsages returns true as soon as any visited
\* entry is an unshadowed callable use; the visiting order does not change that.
RECURSIVE UnsafeUseBelow(_, _, _, _, _)
UnsafeUseBelow(node, parent, shadow, name, targetFunctionNode) ==
    IF node = targetFunctionNode THEN FALSE
    ELSE LET nodeType    == getNodeType(node)
             scopeShadow == IF isScopeNodeType(nodeType)
                               /\ name \in collectScopeDeclarations(node, targetFunctionNode)
                            THEN 1 ELSE 0
             nextShadow  == shadow + scopeShadow
         IN  \/ /\ nodeType = "Identifier"
                /\ node.value = name
                /\ shadow = 0
                /\ isIdentifierReference(node, parent)
                /\ isCallableIdentifierUse(node, parent)
             \/ \E i \in 1..Len(node.kids) :
                    UnsafeUseBelow(node.kids[i].node, node, nextShadow, name, targetFunctionNode)

hasUnsafeCallableUsages(ast, name, targetFunctionNode) ==
    UnsafeUseBelow(ast, Null, 0, name, targetFunctionNode)

(***************************************************************************)
(* Handler locator                                                         *)
(***************************************************************************)
HasUseClientDirectiveAnywhere(node) ==
    \* accepts the directive at any position of the block, not only the first
    LET body  == Field(node, "body")
        stmts == getNodeArray(body, "stmts")
    IN  /\ body # Null
        /\ getNodeType(body) = "BlockStatement"
        /\ \E k \in 1..Len(stmts) :
               /\ getNodeType(stmts[k]) = "ExpressionStatement"
               /\ Field(stmts[k], "expression") # Null
               /\ getNodeType(Field(stmts[k], "expression")) = "StringLiteral"
               /\ Field(stmts[k], "expression").value = "use client"

HasUseClientDirective(node) ==
    LET body       == Field(node, "body")
        stmts      == getNodeArray(body, "stmts")
        first      == IF stmts = <<>> THEN Null ELSE stmts[1]
        expression == Field(first, "expression")
    IN  /\ body # Null
        /\ getNodeType(body) = "BlockStatement"
        /\ first # Null
        /\ getNodeType(first) = "ExpressionStatement"
        /\ expression # Null
        /\ getNodeType(expression) = "StringLiteral"
        /\ expression.value = "use client"

RECURSIVE PushNodes(_, _, _, _)
PushNodes(kids, i, parent, acc) ==
    \* pushNode for every child in key order; acc = [stack, seen]
    IF i > Len(kids) THEN acc
    ELSE LET child == kids[i].node
         IN  PushNodes(kids, i + 1, parent,
                 IF child \in acc.seen THEN acc
                 ELSE [stack |-> Append(acc.stack, [node |-> child, parent |-> parent]),
                       seen  |-> acc.seen \cup {child}])

RECURSIVE FindLoop(_, _, _)
FindLoop(stack, seen, matches) ==
    IF stack = <<>> THEN matches
    ELSE LET next   == stack[Len(stack)]                    \* stack.pop()
             rest   == SubSeq(stack, 1, Len(stack) - 1)
             node   == next.node
             isFn   == getNodeType(node) \in {"ArrowFunctionExpression", "FunctionExpression",
                                              "FunctionDeclaration"}
             found  == IF isFn /\ HasUseClientDirective(node)
                       THEN Append(matches, next) ELSE matches
             pushed == PushNodes(node.kids, 1, node, [stack |-> rest, seen |-> seen])
         IN  FindLoop(pushed.stack, pushed.seen, found)

findInlineFunctions(ast) ==
    FindLoop(<<[node |-> ast, parent |-> Null]>>, {ast}, <<>>)


(***************************************************************************)
(* Import table and top-level declaration table                            *)
(***************************************************************************)
ImportEntriesWithTypes(stmts, i, code, offset, lk) ==
    \* enters every specifier of every import declaration, type-only or not
    Flatten([j \in 1..Len(stmts) |->
        LET specs == getNodeArray(stmts[j], "specifiers")
        IN  IF j < i \/ getNodeType(stmts[j]) # "ImportDeclaration" THEN <<>>
            ELSE [k \in 1..Len(specs) |->
                     [name |-> getIdentifierValue(Field(specs[k], "local")),
                      info |-> [node |-> stmts[j],
                                code |-> Slice(code, getStart(stmts[j], offset, lk),
                                               getEnd(stmts[j], offset, lk))]]]])

RECURSIVE ImportEntries(_, _, _, _, _)
ImportEntries(stmts, i, code, offset, lk) ==
    \* the map.set calls of buildImportMap from statement i on, in order
    IF i > Len(stmts) THEN <<>>
    ELSE LET stmt  == stmts[i]
             specs == getNodeArray(stmt, "specifiers")
             importCode == Slice(code, getStart(stmt, offset, lk), getEnd(stmt, offset, lk))
             Sets(spec) ==
                 LET localName == getIdentifierValue(Field(spec, "local"))
                 IN  /\ localName # ""
                     /\ \/ getNodeType(spec) = "ImportSpecifier" /\ "isTypeOnly" \notin spec.flags
                        \/ getNodeType(spec) \in {"ImportDefaultSpecifier", "ImportNamespaceSpecifier"}
             kept == SelectSeq(specs, Sets)
             here == IF getNodeType(stmt) # "ImportDeclaration" \/ "typeOnly" \in stmt.flags
                     THEN <<>>
                     ELSE [k \in 1..Len(kept) |->
                              [name |-> getIdentifierValue(Field(kept[k], "local")),
                               info |-> [node |-> stmt, code |-> importCode]]]
         IN  here \o ImportEntries(stmts, i + 1, code, offset, lk)

MapOf(entries) ==
    \* a Map after the given set calls: the last set of a key wins
    [name \in {entries[k].name : k \in 1..Len(entries)} |->
        LET last_k == CHOOSE k \in 1..Len(entries) :
                         /\ entries[k].name = name
                         /\ \A j \in (k + 1)..Len(entries) : entries[j].name # name
        IN  entries[last_k].info]

buildImportMap(ast, code, offset, lk) ==
    MapOf(ImportEntries(getNodeArray(ast, "body"), 1, code, offset, lk))

NoInfo == [node |-> Null, code |-> <<>>, declared |-> {}, dependencies |-> {}]

collectTopLevelDeclarationInfo(stmt, code, offset, lk) ==
    \* NoInfo stands for null
    LET target     == UnwrapExport(stmt)
        targetType == getNodeType(target)
        viaIdentifier == getIdentifierValue(Field(target, "identifier"))
        declared ==
            IF targetType = "FunctionDeclaration"
            THEN (IF viaIdentifier # "" THEN {viaIdentifier} ELSE {})
            ELSE IF targetType = "VariableDeclaration"
            THEN LET decls == getNodeArray(target, "declarations")
                 IN  UNION {collectDeclaredFromPattern(Field(decls[i], "id")) : i \in 1..Len(decls)}
            ELSE LET name == IF viaIdentifier # "" THEN viaIdentifier
                             ELSE getIdentifierValue(Field(target, "id"))
                 IN  IF name # "" THEN {name} ELSE {}
    IN  IF targetType \notin {"FunctionDeclaration", "VariableDeclaration", "ClassDeclaration",
                              "TsEnumDeclaration", "TsConstEnumDeclaration"}
        THEN NoInfo
        ELSE [node |-> target,
              code |-> Slice(code, getStart(target, offset, lk), getEnd(target, offset, lk)),
              declared |-> declared,
              dependencies |-> Range(collectReferences(target, <<declared>>, <<>>, Null).out)]

RECURSIVE EntriesOf(_, _)
EntriesOf(info, names) ==
    \* for (const name of info.declared) map.set(name, info): one info under every name
    IF info = NoInfo \/ names = {} THEN <<>>
    ELSE <<[name |-> CHOOSE n \in names : TRUE, info |-> info]>>
         \o EntriesOf(info, names \ {CHOOSE n \in names : TRUE})

RECURSIVE DeclarationEntries(_, _, _, _, _)
DeclarationEntries(stmts, i, code, offset, lk) ==
    IF i > Len(stmts) THEN <<>>
    ELSE LET info == collectTopLevelDeclarationInfo(stmts[i], code, offset, lk)
         IN  EntriesOf(info, info.declared)
             \o DeclarationEntries(stmts, i + 1, code, offset, lk)

buildDeclarationMap(ast, code, offset, lk) ==
    MapOf(DeclarationEntries(getNodeArray(ast, "body"), 1, code, offset, lk))


(***************************************************************************)
(* Sources: generated modules.  A source is leading trivia, a sequence of  *)
(* top-level statements (each followed by a line break) and the position   *)
(* base the parser reports its spans from.                                 *)
(***************************************************************************)
HandlerBody == Block(<<Directive, Return(Num("1"))>>)

StmtShape(name) ==
    LET \* `: T`, a TsTypeAnnotation over a TsTypeReference to the type name T
        TypeAnn(t) ==
            Shape("TsTypeAnnotation", "", {},
                  <<Tok(":"), Kid("typeAnnotation",
                        Shape("TsTypeReference", "", {}, <<Kid("typeName", Ident(t))>>))>>)
        \* `value: T`, a binding identifier carrying its annotation
        Typed(n, t) ==
            Shape("Identifier", n, {}, <<Tok(n), Kid("typeAnnotation", TypeAnn(t))>>)
        \* `new URL(import.meta.ROLLUP_FILE_URL_ref_0).pathname`, as a leaf expression
        Url == Shape("MemberExpression", "", {},
                     <<Tok("new URL(import.meta.ROLLUP_FILE_URL_"), Tok("ref_0"),
                       Tok(").pathname")>>)
        \* `const top = <url>;` as the replacement text spells it
        ConstTop == Shape("VariableDeclaration", "", {},
                          <<Tok("const"), Tok(" "),
                            Elem("declarations",
                                 Shape("VariableDeclarator", "", {},
                                       <<Kid("id", Ident("top")), Tok(" "), Tok("="), Tok(" "),
                                         Kid("init", Url)>>)),
                            Tok(";")>>)
    IN
    CASE name = "ImportBare" ->        \* import './reset.css';
           Import({"bare"}, <<>>, "'./reset.css'")
      [] name = "ImportSubmit" ->      \* import { submit } from './c.ts';
           Import({}, <<ImportSpec("submit")>>, "'./c.ts'")
      [] name = "ConstLabel" ->        \* const label = 'x';
           VarDecl("const", "label", Str("x", "'x'"))
      [] name = "ArrowHandler" ->      \* export const h = () => { 'use client'; return 1; };
           ExportDecl(VarDecl("const", "h", Arrow(<<>>, HandlerBody)))
      [] name = "ArrowRefs" ->         \* const g = () => { 'use client'; return submit(label); } ;
           Shape("VariableDeclaration", "", {},
                 <<Tok("const"),
                   Elem("declarations", Declarator("g",
                       Arrow(<<>>, Block(<<Directive,
                           Return(Call(Ident("submit"), <<Ident("label")>>))>>)))),
                   Tok(" "), Tok(";")>>)
      [] name = "FnDeclTop" ->         \* function top() { 'use client'; return 1; }
           FnDecl("top", <<>>, HandlerBody)
      [] name = "ExportFnTop" ->       \* export function top() { 'use client'; return 1; }
           ExportDecl(FnDecl("top", <<>>, HandlerBody))
      [] name = "DefaultFnTop" ->      \* export default function top() { 'use client'; return 1; }
           ExportDefaultDecl(FnExpr("top", <<>>, HandlerBody))
      [] name = "DefaultFnAnon" ->     \* export default function () { 'use client'; return 1; }
           ExportDefaultDecl(FnExpr("", <<>>, HandlerBody))
      [] name = "CallTop" ->           \* top();
           ExprStmt(Call(Ident("top"), <<>>))
      [] name = "NewTop" ->            \* new top();
           ExprStmt(New(Ident("top")))
      [] name = "TagTop" ->            \* top`x`;
           ExprStmt(Tagged(Ident("top")))
      [] name = "ValueUse" ->          \* export const value = top;
           ExportDecl(VarDecl("const", "value", Ident("top")))
      [] name = "ShadowParam" ->       \* function invoke(top) { return top(); }
           FnDecl("invoke", <<Param("top")>>, Block(<<Return(Call(Ident("top"), <<>>))>>))
      [] name = "ShadowBlock" ->       \* { const top = label; new top(); }
           Block(<<VarDecl("const", "top", Ident("label")), ExprStmt(New(Ident("top")))>>)
      [] name = "ShadowCatch" ->       \* try { } catch (top) { top`x`; }
           Try(Block(<<>>), "top", Block(<<ExprStmt(Tagged(Ident("top")))>>))
      [] name = "ShadowMethod" ->      \* class K { run(top) { return top(); } }
           ClassDecl("K", <<ClassMethod("run", <<Param("top")>>,
                                        Block(<<Return(Call(Ident("top"), <<>>))>>))>>)
      [] name = "NotLeading" ->        \* const n = () => { const v = 1; 'use client'; return v; };
           VarDecl("const", "n", Arrow(<<>>, Block(<<VarDecl("const", "v", Num("1")),
                                                     Directive, Return(Ident("v"))>>)))
      [] name = "StringOnly" ->        \* const s = 'use client';
           VarDecl("const", "s", Str("use client", UseClientString))
      [] name = "ExprArrow" ->         \* const e = () => 'use client';
           VarDecl("const", "e", Arrow(<<>>, Str("use client", UseClientString)))
      [] name = "Nested" ->
           \* const outer = () => { 'use client';
           \*   const inner = () => { 'use client'; return 1; }; return inner; };
           VarDecl("const", "outer", Arrow(<<>>, Block(<<Directive,
               VarDecl("const", "inner", Arrow(<<>>, HandlerBody)),
               Return(Ident("inner"))>>)))
      [] name = "CallArg" ->           \* events(() => { 'use client'; return 1; }, label);
           ExprStmt(Call(Ident("events"), <<Arrow(<<>>, HandlerBody), Ident("label")>>))
      [] name = "BlockFnCalled" ->     \* { function top() { 'use client'; return 1; } top(); }
           Block(<<FnDecl("top", <<>>, HandlerBody), ExprStmt(Call(Ident("top"), <<>>))>>)
      [] name = "Garbage" ->           \* const = 'use client' (      (does not parse)
           Shape("<error>", "", {}, <<Tok("const"), Tok("="), Tok(UseClientString), Tok("(")>>)
      [] name = "GarbagePlain" ->      \* const = (                   (does not parse)
           Shape("<error>", "", {}, <<Tok("const"), Tok("="), Tok("(")>>)
      [] name = "ImportFormat" ->      \* import { format } from './f.ts';
           Import({}, <<ImportSpec("format")>>, "'./f.ts'")
      [] name = "ConstHelper" ->       \* const helper = format(label);
           VarDecl("const", "helper", Call(Ident("format"), <<Ident("label")>>))
      [] name = "ConstHelperLost" ->   \* const helper = missing;
           VarDecl("const", "helper", Ident("missing"))
      [] name = "ArrowHelper" ->       \* const k = () => { 'use client'; return fetch(helper); };
           VarDecl("const", "k", Arrow(<<>>, Block(<<Directive,
               Return(Call(Ident("fetch"), <<Ident("helper")>>))>>)))
      [] name = "ImportTypeFoo" ->     \* import type { Foo } from './t.ts';
           Import({"typeOnly"}, <<ImportSpec("Foo")>>, "'./t.ts'")
      [] name = "ImportTypeBar" ->     \* import { type Bar, submit } from './c.ts';
           Shape("ImportDeclaration", "", {},
                 <<Tok("import"), Tok("{"),
                   Elem("specifiers", Shape("ImportSpecifier", "", {"isTypeOnly"},
                                            <<Tok("type"), Kid("local", Ident("Bar"))>>)),
                   Tok(","), Elem("specifiers", ImportSpec("submit")),
                   Tok("}"), Tok("from"), Kid("source", Str("'./c.ts'", "'./c.ts'")), Tok(";")>>)
      [] name = "ArrowTyped" ->        \* const t = (value: Foo): Bar => { 'use client'; return value; };
           VarDecl("const", "t",
               Shape("ArrowFunctionExpression", "", {},
                     <<Tok("("), Elem("params", Typed("value", "Foo")), Tok(")"),
                       Kid("returnType", TypeAnn("Bar")), Tok("=>"),
                       Kid("body", Block(<<Directive, Return(Ident("value"))>>))>>))
      [] name = "FnTyped" ->
           \* function typed(value: Foo): Bar { 'use client'; return submit(value); }
           Shape("FunctionDeclaration", "", {},
                 <<Tok("function"), Kid("identifier", Ident("typed")), Tok("("),
                   Elem("params", Shape("Parameter", "", {}, <<Kid("pat", Typed("value", "Foo"))>>)),
                   Tok(")"), Kid("returnType", TypeAnn("Bar")),
                   Kid("body", Block(<<Directive,
                       Return(Call(Ident("submit"), <<Ident("value")>>))>>))>>)
      \* What transform returns for a module is a module again:
      [] name = "ArrowHandlerOut" ->   \* export const h = <url>;
           ExportDecl(VarDecl("const", "h", Url))
      [] name = "FnDeclTopOut" ->      \* const top = <url>;
           ConstTop
      [] name = "ExportFnTopOut" ->    \* export const top = <url>;
           Shape("ExportDeclaration", "", {},
                 <<Tok("export"), Tok(" "), Kid("declaration", ConstTop)>>)
      [] name = "CallArgOut" ->        \* events(<url>, label);
           ExprStmt(Call(Ident("events"), <<Url, Ident("label")>>))
      [] name = "NestedNotLeadingOut" ->
           \* const outer = <url> => { const v = 1; 'use client'; return v; };
           \* (a member expression is no parameter list: does not parse)
           Shape("<error>", "", {},
                 <<Tok("const"), Tok("outer"), Tok("="),
                   Tok("new URL(import.meta.ROLLUP_FILE_URL_"), Tok("ref_0"), Tok(").pathname"),
                   Tok("=>"), Tok("{"), Tok("const"), Tok("v"), Tok("="), Tok("1"), Tok(";"),
                   Tok(UseClientString), Tok(";"), Tok("return"), Tok("v"), Tok(";"), Tok("}"),
                   Tok(";")>>)
      [] name = "FnPing" ->            \* function ping() { return pong(); }
           FnDecl("ping", <<>>, Block(<<Return(Call(Ident("pong"), <<>>))>>))
      [] name = "FnPong" ->            \* function pong() { return ping(); }
           FnDecl("pong", <<>>, Block(<<Return(Call(Ident("ping"), <<>>))>>))
      [] name = "FnSelf" ->            \* function self() { return self(); }
           FnDecl("self", <<>>, Block(<<Return(Call(Ident("self"), <<>>))>>))
      [] name = "ConstPair" ->         \* const a = self, b = a;
           Shape("VariableDeclaration", "", {},
                 <<Tok("const"), Elem("declarations", Declarator("a", Ident("self"))), Tok(","),
                   Elem("declarations", Declarator("b", Ident("a"))), Tok(";")>>)
      [] name = "ArrowPing" ->         \* const m = () => { 'use client'; return ping(a, b); };
           VarDecl("const", "m", Arrow(<<>>, Block(<<Directive,
               Return(Call(Ident("ping"), <<Ident("a"), Ident("b")>>))>>)))
      [] name = "ArrowBoth" ->         \* const w = () => { 'use client'; return submit(helper); };
           VarDecl("const", "w", Arrow(<<>>, Block(<<Directive,
               Return(Call(Ident("submit"), <<Ident("helper")>>))>>)))
      [] name = "ArrowHoist" ->
           \* const q = () => { 'use client'; return inner(); function inner() { return 1; } };
           VarDecl("const", "q", Arrow(<<>>, Block(<<Directive,
               Return(Call(Ident("inner"), <<>>)),
               FnDecl("inner", <<>>, Block(<<Return(Num("1"))>>))>>)))
      [] name = "ArrowAfter" ->
           \* const q = () => { 'use client'; function inner() { return 1; } return inner(); };
           VarDecl("const", "q", Arrow(<<>>, Block(<<Directive,
               FnDecl("inner", <<>>, Block(<<Return(Num("1"))>>)),
               Return(Call(Ident("inner"), <<>>))>>)))
      [] name = "ArrowLate" ->
           \* const p = () => { 'use client'; const r = () => later; const later = 1; return r; };
           VarDecl("const", "p", Arrow(<<>>, Block(<<Directive,
               VarDecl("const", "r", Arrow(<<>>, Ident("later"))),
               VarDecl("const", "later", Num("1")),
               Return(Ident("r"))>>)))
      [] name = "ArrowLocal" ->
           \* const p = () => { 'use client'; const later = label; return fetch(later); };
           VarDecl("const", "p", Arrow(<<>>, Block(<<Directive,
               VarDecl("const", "later", Ident("label")),
               Return(Call(Ident("fetch"), <<Ident("later")>>))>>)))
      [] name = "ConstUnicode" ->      \* const u = 'é€𝒳';
           VarDecl("const", "u", Shape("StringLiteral", "u", {},
               <<Tok("'"), Tok("e_acute"), Tok("euro"), Tok("hi_surrogate"),
                 Tok("lo_surrogate"), Tok("'")>>))

Templates == {"ImportBare", "ImportSubmit", "ConstLabel", "ArrowHandler", "ArrowRefs",
              "FnDeclTop", "ExportFnTop", "DefaultFnTop", "DefaultFnAnon", "CallTop",
              "NewTop", "TagTop", "ValueUse", "ShadowParam", "ShadowBlock", "ShadowCatch",
              "ShadowMethod", "NotLeading", "StringOnly", "ExprArrow", "Nested", "CallArg",
              "BlockFnCalled", "Garbage", "GarbagePlain"}

\* Every sequence of up to MaxStmts templates, parsed first (base 0) without leading
\* trivia; modules with longer dependency chains; and handlers behind leading trivia
\* and multi-byte text, parsed first or after other parses (base 7).  What may stand
\* before the first token: a byte order mark, a shebang line, and up to two pieces
\* of whitespace or comment, some with multi-byte characters.
Sources ==
    LET pieces == {<<>>, <<" ">>, <<"\n">>, <<"/", "/", "euro", "\n">>,
                   <<"/", "*", "e_acute", "hi_surrogate", "lo_surrogate", "*", "/">>}
        Leads  == {bom \o shebang \o p \o q :
                      bom \in {<<>>, <<"BOM">>}, shebang \in {<<>>, <<"#", "!", "x", "\n">>},
                      p \in pieces, q \in pieces}
    IN
    {[lead |-> <<>>, stmts |-> ss, base |-> 0] :
        ss \in UNION {[1..n -> Templates] : n \in 1..MaxStmts}}
    \cup {[lead |-> <<>>, stmts |-> ss, base |-> 0] :
            ss \in {<<"ImportFormat", "ConstLabel", "ConstHelper", "ArrowHelper">>,
                    <<"ImportSubmit", "ImportFormat", "ConstLabel", "ConstHelper",
                      "ArrowHelper">>,
                    <<"ImportFormat", "ImportSubmit", "ConstLabel", "ArrowRefs",
                      "ConstHelper">>,
                    <<"ConstHelper", "ArrowHelper">>,
                    <<"ConstHelperLost", "ArrowHelper">>,
                    <<"ArrowRefs", "CallArg", "ArrowHandler">>,
                    <<"ImportTypeFoo", "ImportTypeBar", "ArrowTyped">>,
                    <<"ImportTypeFoo", "ImportTypeBar", "FnTyped">>,
                    <<"ImportTypeFoo", "ArrowTyped">>,
                    <<"ImportTypeBar", "ArrowTyped">>,
                    <<"NestedNotLeadingOut">>,
                    <<"FnPing", "FnPong", "FnSelf", "ConstPair", "ArrowPing">>,
                    <<"ArrowPing", "ConstPair", "FnSelf", "FnPong", "FnPing">>,
                    <<"FnPong", "ConstPair", "ArrowPing">>,
                    <<"FnSelf", "ArrowPing", "ConstPair">>,
                    <<"ImportSubmit", "ImportFormat", "ConstLabel", "ConstHelper", "ArrowBoth">>,
                    <<"ImportFormat", "ArrowBoth", "ConstHelper", "ImportSubmit", "ConstLabel">>,
                    <<"ArrowHoist">>, <<"ArrowAfter">>, <<"ArrowLate">>,
                    <<"ConstLabel", "ArrowLocal">>}}
    \cup {[lead |-> <<>>, stmts |-> ss, base |-> 0] :
            ss \in UNION {{<<out, other>>, <<other, out>>} :
                      out \in {"ArrowHandlerOut", "FnDeclTopOut", "ExportFnTopOut", "CallArgOut"},
                      other \in {"StringOnly", "NotLeading"}}}
    \cup {[lead |-> lead, stmts |-> ss, base |-> base] :
            lead \in Leads, base \in {0, 7},
            ss \in {<<"ConstUnicode", "ArrowHandler">>, <<"CallArg", "ConstUnicode", "CallArg">>}}

ModuleShape(src) ==
    Shape("Module", "", {},
          [k \in 1..Len(src.lead) |-> Tok(src.lead[k])]
          \o Flatten([k \in 1..Len(src.stmts) |->
                         <<Elem("body", StmtShape(src.stmts[k])), Tok("\n")>>]))

Parses(src) == \A k \in 1..Len(src.stmts) : StmtShape(src.stmts[k]).type # "<error>"

\* The text and the byte offsets of every source, tabulated.
Code  == [src \in Sources |-> PrintShape(ModuleShape(src))]
Bytes == [src \in Sources |-> ByteOffsetTable(Code[src], Len(Code[src]))]

parseModule(src, bytes) ==
    \* parseSync(code, ...) for a source that parses: the module span starts at the
    \* first token
    [Annotate(ModuleShape(src), 0, bytes, src.base)
        EXCEPT !.span = <<bytes[Len(src.lead) + 1] + 1 + src.base, @[2]>>]

maybeContainsUseClient(code) ==
    \* code.includes("use client"): the units whose text contains the substring
    \E k \in 1..Len(code) : code[k] \in {UseClientString, "use client"}


(***************************************************************************)
(* Paths, hashes and ids                                                   *)
(***************************************************************************)
INLINE_ID_PREFIX == "\\0inline-client:"

\* A module id handed to transform: virtual ids start with "\0".
PathId(v, a, d) == [virtual |-> v, abs |-> a, dir |-> d, base |-> "x", ext |-> "tsx"]
PathIds == {PathId(TRUE, TRUE, <<"a">>), PathId(FALSE, TRUE, <<"a">>),
            PathId(FALSE, FALSE, <<"a">>), PathId(FALSE, TRUE, <<"b">>)}

isAbsolute(id) == id.abs
pathResolve(id) == IF id.abs THEN id ELSE [id EXCEPT !.abs = TRUE, !.dir = <<"cwd">> \o id.dir]

Sha1OfPrefix(data) ==
    \* digests the first element of its input only
    [sha1 |-> IF data = <<>> THEN <<>> ELSE <<Head(data)>>]

Sha1(data) == [sha1 |-> data]          \* the digest, taken to be collision-free

RefTokens == <<"ref_0", "ref_1", "ref_2", "ref_3", "ref_4", "ref_5", "ref_6", "ref_7">>

UrlExpression(refId) ==
    \* `new URL(import.meta.ROLLUP_FILE_URL_${refId}).pathname`
    <<"new URL(import.meta.ROLLUP_FILE_URL_", refId, ").pathname">>

(***************************************************************************)
(* Messages and hosts                                                      *)
(***************************************************************************)
Message(kind, id, detail) == [tag |-> "[use-client]", kind |-> kind, id |-> id, detail |-> detail]
NoMessage == [tag |-> "", kind |-> "", id |-> pathResolve(CHOOSE i \in PathIds : TRUE),
              detail |-> <<>>]

\* A host context: whether it provides the optional error and warn methods.
Hosts == [error : BOOLEAN, warn : BOOLEAN]

Options == [strict : BOOLEAN, unresolved : {"unset", "error", "warn", "ignore"},
            debug : BOOLEAN]

Trim(text) ==
    \* String.prototype.trim
    LET keep == {k \in 1..Len(text) : ~IsWhitespace(text[k])}
    IN  IF keep = {} THEN <<>>
        ELSE SubSeq(text, CHOOSE k \in keep : \A j \in keep : k <= j,
                          CHOOSE k \in keep : \A j \in keep : k >= j)

RECURSIVE JoinWith(_, _)
JoinWith(texts, sep) ==
    IF texts = <<>> THEN <<>>
    ELSE IF Len(texts) = 1 THEN texts[1]
    ELSE texts[1] \o sep \o JoinWith(Tail(texts), sep)


(***************************************************************************)
(* Module synthesizer helpers                                              *)
(***************************************************************************)
RECURSIVE SetToSeq(_)
SetToSeq(set) ==
    IF set = {} THEN <<>>
    ELSE LET x == CHOOSE x \in set : TRUE IN <<x>> \o SetToSeq(set \ {x})

RECURSIVE SortByStartDescending(_, _, _)
SortByStartDescending(infos, offset, lk) ==
    \* sorts with (a, b) => getStart(b.node) - getStart(a.node)
    IF infos = {} THEN <<>>
    ELSE LET first == CHOOSE a \in infos : \A b \in infos :
                          getStart(a.node, offset, lk) >= getStart(b.node, offset, lk)
         IN  <<first>> \o SortByStartDescending(infos \ {first}, offset, lk)

RECURSIVE SortByStart(_, _, _)
SortByStart(infos, offset, lk) ==
    \* Array.from(required.values()).sort((a, b) => getStart(a.node) - getStart(b.node))
    IF infos = {} THEN <<>>
    ELSE LET first == CHOOSE a \in infos : \A b \in infos :
                          getStart(a.node, offset, lk) <= getStart(b.node, offset, lk)
         IN  <<first>> \o SortByStart(infos \ {first}, offset, lk)

CloseOverDirect(pending, seen, requiredImports, requiredDeclarations, importMap, declarationMap, log) ==
    \* requires what the pending names resolve to and follows no dependency
    [imports |-> {importMap[n] : n \in Range(pending) \cap DOMAIN importMap},
     declarations |-> {declarationMap[n] :
                          n \in (Range(pending) \cap DOMAIN declarationMap) \ DOMAIN importMap},
     enqueued |-> log.enqueued, recorded |-> log.recorded]

RECURSIVE CloseOverRecordingAgain(_, _, _, _, _, _, _)
CloseOverRecordingAgain(pending, seen, requiredImports, requiredDeclarations, importMap, declarationMap, log) ==
    \* the worklist without the !requiredDeclarations.has(declInfo.node) test
    IF pending = <<>>
    THEN [imports |-> requiredImports, declarations |-> requiredDeclarations,
          enqueued |-> log.enqueued, recorded |-> log.recorded]
    ELSE LET name == pending[Len(pending)]
             rest == SubSeq(pending, 1, Len(pending) - 1)
         IN  IF name \in DOMAIN importMap
             THEN CloseOverRecordingAgain(rest, seen, requiredImports \cup {importMap[name]},
                                          requiredDeclarations, importMap, declarationMap, log)
             ELSE IF name \in DOMAIN declarationMap
             THEN LET declInfo == declarationMap[name]
                      deps == SetToSeq({d \in declInfo.dependencies :
                                           d \notin seen /\ d \notin GLOBALS})
                  IN  CloseOverRecordingAgain(rest \o deps,
                          seen \cup (declInfo.dependencies \ GLOBALS),
                          requiredImports, requiredDeclarations \cup {declInfo},
                          importMap, declarationMap,
                          [enqueued |-> log.enqueued \o deps,
                           recorded |-> Append(log.recorded, declInfo)])
             ELSE CloseOverRecordingAgain(rest, seen, requiredImports, requiredDeclarations,
                                          importMap, declarationMap, log)

\* log keeps what the loop did: the names put on `pending`, at the start and by
\* pending.push(dep), and the declarations entered by requiredDeclarations.set, in order
RECURSIVE CloseOver(_, _, _, _, _, _, _)
CloseOver(pending, seen, requiredImports, requiredDeclarations, importMap, declarationMap, log) ==
    \* the while (pending.length > 0) worklist
    IF pending = <<>>
    THEN [imports |-> requiredImports, declarations |-> requiredDeclarations,
          enqueued |-> log.enqueued, recorded |-> log.recorded]
    ELSE LET name == pending[Len(pending)]                         \* pending.pop()
             rest == SubSeq(pending, 1, Len(pending) - 1)
         IN  IF name \in DOMAIN importMap
             THEN CloseOver(rest, seen, requiredImports \cup {importMap[name]},
                            requiredDeclarations, importMap, declarationMap, log)
             ELSE IF /\ name \in DOMAIN declarationMap
                     /\ declarationMap[name] \notin requiredDeclarations
             THEN LET declInfo == declarationMap[name]
                      deps == SetToSeq({d \in declInfo.dependencies :
                                           d \notin seen /\ d \notin GLOBALS})
                  IN  CloseOver(rest \o deps, seen \cup (declInfo.dependencies \ GLOBALS),
                                requiredImports, requiredDeclarations \cup {declInfo},
                                importMap, declarationMap,
                                [enqueued |-> log.enqueued \o deps,
                                 recorded |-> Append(log.recorded, declInfo)])
             ELSE CloseOver(rest, seen, requiredImports, requiredDeclarations,
                            importMap, declarationMap, log)

printHandler(code, node) ==
    \* printSync of `export default <handler without its directive>` (external
    \* printer): the handler's own text minus the directive statement
    LET stmts == getNodeArray(Field(node, "body"), "stmts")
        text  == IF stmts # <<>> /\ HasUseClientDirective(node)
                 THEN Slice(code, node.at[1], stmts[1].at[1])
                      \o Slice(code, stmts[1].at[2], node.at[2])
                 ELSE Slice(code, node.at[1], node.at[2])
    IN  <<"export", "default">> \o text \o <<";", "\n">>

RECURSIVE InsertByStartDesc(_, _)
InsertByStartDesc(sorted, r) ==
    \* stable insertion for sort((a, b) => b.start - a.start)
    IF sorted = <<>> THEN <<r>>
    ELSE IF Head(sorted).start >= r.start THEN <<Head(sorted)>> \o InsertByStartDesc(Tail(sorted), r)
    ELSE <<r>> \o sorted

RECURSIVE SortByStartDesc(_)
SortByStartDesc(rs) ==
    IF rs = <<>> THEN <<>>
    ELSE InsertByStartDesc(SortByStartDesc(SubSeq(rs, 1, Len(rs) - 1)), rs[Len(rs)])

RECURSIVE ApplyReplacements(_, _)
ApplyReplacements(transformed, rs) ==
    IF rs = <<>> THEN transformed
    ELSE LET r == Head(rs)
         IN  ApplyReplacements(Slice(transformed, 0, r.start) \o r.replacement
                               \o Slice(transformed, r.end, Len(transformed)), Tail(rs))


(***************************************************************************)
(* What transform derives from the code alone, tabulated per source in the *)
(* order the handler computes it                                           *)
(***************************************************************************)
Parsed ==
    [src \in Sources |->
        [code   |-> Code[src],
         parses |-> Parses(src),
         ast    |-> IF Parses(src) THEN parseModule(src, Bytes[src]) ELSE Null]]

Located(p) ==
    [code |-> p.code, parses |-> p.parses, ast |-> p.ast,
     offset |-> getSwcSpanBaseOffset(p.ast, p.code),
     byteOffsetToIndex |-> createByteOffsetLookup(p.code),
     inlineFunctions |-> findInlineFunctions(p.ast)]

Locations == [src \in Sources |-> Located(Parsed[src])]

SideEffectImportsWithBindings(ast) ==
    \* looks for the imports that have specifiers instead of those that have none
    SelectSeq(getNodeArray(ast, "body"), LAMBDA stmt :
        /\ getNodeType(stmt) = "ImportDeclaration"
        /\ getNodeArray(stmt, "specifiers") # <<>>
        /\ "typeOnly" \notin stmt.flags)

SideEffectImports(ast) ==
    SelectSeq(getNodeArray(ast, "body"), LAMBDA stmt :
        /\ getNodeType(stmt) = "ImportDeclaration"
        /\ getNodeArray(stmt, "specifiers") = <<>>
        /\ "typeOnly" \notin stmt.flags)

Snippet(m, imports) ==
    IF imports = <<>> THEN <<>>
    ELSE Trim(Slice(m.code, getStart(imports[1], m.offset, m.byteOffsetToIndex),
                            getEnd(imports[1], m.offset, m.byteOffsetToIndex)))

Tabulated(m) ==
    [code |-> m.code, parses |-> m.parses, ast |-> m.ast, offset |-> m.offset,
     byteOffsetToIndex |-> m.byteOffsetToIndex, inlineFunctions |-> m.inlineFunctions,
     sideEffectImports |-> Len(SideEffectImports(m.ast)),
     snippet |-> Snippet(m, SideEffectImports(m.ast)),
     importMap |-> buildImportMap(m.ast, m.code, m.offset, m.byteOffsetToIndex),
     declarationMap |-> buildDeclarationMap(m.ast, m.code, m.offset, m.byteOffsetToIndex)]

Tables == [src \in Sources |-> Tabulated(Locations[src])]

\* The values of one iteration of the handler loop that depend on the code alone.
SpanTargetFunctionOnly(fn) ==
    \* always replaces the function's own span, never the export statement around it
    fn.node

SpanTarget(fn) ==
    IF \/ /\ getNodeType(fn.node) = "FunctionDeclaration"
          /\ getNodeType(fn.parent) \in {"ExportDeclaration", "ExportDefaultDeclaration"}
       \/ /\ getNodeType(fn.parent) = "ExportDefaultDeclaration"
          /\ getNodeType(fn.node) = "FunctionExpression"
          /\ getIdentifierValue(Field(fn.node, "identifier")) # ""
    THEN (IF fn.parent # Null THEN fn.parent ELSE fn.node)
    ELSE fn.node

CodeBlock(infos, sep) ==
    \* `${infos.map((info) => info.code.trim()).join(sep)}\n\n`, or "" when there are none
    IF infos = <<>> THEN <<>> ELSE JoinWith([k \in 1..Len(infos) |-> Trim(infos[k].code)], sep) \o <<"\n", "\n">>

Synthesized(m, fn, freeRefs, pending, required) ==
    [nodeType |-> getNodeType(fn.node),
     parentType |-> getNodeType(fn.parent),                  \* "" stands for undefined
     functionName |-> getIdentifierValue(Field(fn.node, "identifier")),
     exportedHandlerCode |-> printHandler(m.code, fn.node),
     start |-> getStart(fn.node, m.offset, m.byteOffsetToIndex),
     span |-> trimForReplacement(
                  getSpanWithParens(SpanTarget(fn), m.code, m.offset, m.byteOffsetToIndex),
                  m.code),
     codeLength |-> Len(m.code),
     freeRefs |-> freeRefs,
     unresolved |-> SelectSeq(pending, LAMBDA name :
                        name \notin DOMAIN m.importMap /\ name \notin DOMAIN m.declarationMap),
     importCode |-> CodeBlock(SortByStart(required.imports, m.offset, m.byteOffsetToIndex),
                              <<"\n">>),
     declarationCode |-> CodeBlock(SortByStart(required.declarations, m.offset,
                                               m.byteOffsetToIndex), <<"\n", "\n">>),
     enqueued |-> required.enqueued,
     recorded |-> required.recorded,
     nodeAt |-> fn.node.at,
     targetAt |-> SpanTarget(fn).at]

Closed(m, fn, freeRefs, pending) ==
    Synthesized(m, fn, freeRefs, pending,
                CloseOver(pending, freeRefs \ GLOBALS, {}, {}, m.importMap, m.declarationMap,
                          [enqueued |-> pending, recorded |-> <<>>]))

Referenced(m, fn, refs) ==
    \* pending = Array.from(freeRefs).filter((name) => !GLOBALS.has(name))
    Closed(m, fn, Range(refs), SelectSeq(refs, LAMBDA name : name \notin GLOBALS))

Guarded(f, ast, fn) ==
    [nodeType |-> f.nodeType, parentType |-> f.parentType, functionName |-> f.functionName,
     exportedHandlerCode |-> f.exportedHandlerCode, start |-> f.start, span |-> f.span,
     codeLength |-> f.codeLength, freeRefs |-> f.freeRefs, unresolved |-> f.unresolved,
     importCode |-> f.importCode, declarationCode |-> f.declarationCode,
     enqueued |-> f.enqueued, recorded |-> f.recorded,
     nodeAt |-> f.nodeAt, targetAt |-> f.targetAt,
     isNamedDefaultFunction |->
         /\ f.parentType = "ExportDefaultDeclaration"
         /\ f.nodeType = "FunctionExpression"
         /\ f.functionName # "",
     unsafe |->
         /\ \/ f.nodeType = "FunctionDeclaration"
            \/ /\ f.parentType = "ExportDefaultDeclaration"
               /\ f.nodeType = "FunctionExpression"
         /\ f.functionName # ""
         /\ hasUnsafeCallableUsages(ast, f.functionName, fn.node)]

HandlerFacts(m, fn) ==
    Guarded(Referenced(m, fn, collectReferences(fn.node, <<{}>>, <<>>, Null).out), m.ast, fn)

RECURSIVE EachHandler(_, _)
EachHandler(m, k) ==
    IF k > Len(m.inlineFunctions) THEN <<>>
    ELSE <<HandlerFacts(m, m.inlineFunctions[k])>> \o EachHandler(m, k + 1)

ModuleFacts(m) ==
    [code |-> m.code,
     contains |-> maybeContainsUseClient(m.code),
     parses |-> m.parses,
     found |-> Len(m.inlineFunctions),
     sideEffectImports |-> m.sideEffectImports,
     snippet |-> m.snippet,
     handlers |-> IF m.sideEffectImports = 0 THEN EachHandler(m, 1) ELSE <<>>]

Facts == [src \in Sources |-> ModuleFacts(Tables[src])]

(***************************************************************************)
(* The per-instance registry                                               *)
(***************************************************************************)
createInlineClientRegistry == <<>>                       \* no entries
RegistrySet(reg, id, code) ==
    [x \in DOMAIN reg \cup {id} |-> IF x = id THEN code ELSE reg[x]]
RegistryGet(reg, id) == reg[id]
RegistryClear(reg) == <<>>

RECURSIVE RegistrySetAll(_, _)
RegistrySetAll(reg, stores) ==
    \* the registry after the set calls of one transform call, in order
    IF stores = <<>> THEN reg
    ELSE RegistrySetAll(RegistrySet(reg, Head(stores).id, Head(stores).code), Tail(stores))

(***************************************************************************)
(* transform                                                               *)
(***************************************************************************)
\* What one hook call did: its outcome ("nothing" | "code" | "throw"), what it
\* returned or threw, and the host and registry calls it made, in order.
NoEffects ==
    [failed |-> FALSE, thrown |-> NoMessage, hostErrors |-> <<>>, warns |-> <<>>,
     stored |-> <<>>, emitted |-> <<>>, replacements |-> <<>>, calls |-> <<>>]

failLeavingTheThrowToTheHost(acc, host, message) ==
    \* this.error(message) when the host has it, and a throw only without it
    IF host.error THEN [acc EXCEPT !.hostErrors = Append(@, message)]
    ELSE [acc EXCEPT !.failed = TRUE, !.thrown = message]

fail(acc, host, message) ==
    \* this.error(message) when the host has it, then throw in any case
    [acc EXCEPT !.failed = TRUE,
                !.thrown = message,
                !.hostErrors = IF host.error THEN Append(@, message) ELSE @]

warn(acc, host, message) ==
    \* this.warn?.(message)
    IF host.warn THEN [acc EXCEPT !.warns = Append(@, message)] ELSE acc

debugLog(acc, opts, host, absoluteId, what) ==
    IF opts.debug THEN warn(acc, host, Message("debug", absoluteId, <<what>>)) ELSE acc

unresolvedPolicyIgnoringOption(opts) ==
    \* derives the policy from strict alone
    IF opts.strict THEN "error" ELSE "warn"

unresolvedPolicyOf(opts) ==
    IF opts.unresolved # "unset" THEN opts.unresolved
    ELSE IF opts.strict THEN "error" ELSE "warn"

InlineModuleId(absoluteId, hash) ==
    \* `${INLINE_ID_PREFIX}${path.join(path.dirname(absoluteId), fileName)}`
    [prefix |-> INLINE_ID_PREFIX, dir |-> absoluteId.dir,
     base |-> absoluteId.base,      \* ids here have base names of [a-zA-Z0-9_-] only
     hash |-> hash, ext |-> "client.tsx"]

ReplacementText(f, refId) ==
    \* the text planned for a handler that got the reference token refId
    LET replacementValue == UrlExpression(refId)
    IN  IF f.nodeType = "FunctionDeclaration" \/ f.isNamedDefaultFunction
        THEN IF f.parentType = "ExportDefaultDeclaration"
             THEN <<"const", " ", f.functionName, " ", "=", " ">> \o replacementValue
                  \o <<";", " ", "export", " ", "default", " ", f.functionName, ";">>
             ELSE (IF f.parentType = "ExportDeclaration" THEN <<"export", " ">> ELSE <<>>)
                  \o <<"const", " ", f.functionName, " ", "=", " ">> \o replacementValue
                  \o <<";">>
        ELSE replacementValue

HandlerStepAnySpan(acc, f, absoluteId, fileHash, normalizedId, opts, host) ==
    \* one iteration of the handler loop without the test of the span
    LET spanMessage == Message("debug", absoluteId, <<"handler span">>)
        unresolvedMessage == Message("references values", absoluteId, f.unresolved)
        a1 == debugLog(acc, opts, host, absoluteId, "handler span")
        a2 == IF f.unresolved # <<>> /\ unresolvedPolicyOf(opts) = "warn"
              THEN warn(a1, host, unresolvedMessage) ELSE a1
        hash     == Sha1(<<fileHash, f.start, normalizedId>>)
        moduleId == InlineModuleId(absoluteId, hash)
        moduleCode == <<"\"use client\";", "\n", "\n">> \o f.importCode \o f.declarationCode
                      \o f.exportedHandlerCode \o <<"\n">>
        refId == RefTokens[Len(acc.emitted) + 1]
        emittedChunk == [type |-> "chunk", id |-> moduleId,
                         fileName |-> [dir |-> "assets", base |-> moduleId.base,
                                       hash |-> hash, ext |-> "client.js"],
                         moduleSideEffects |-> FALSE, ref |-> refId]
        \* inlineRegistry.set(moduleId, moduleCode), then this.emitFile(emittedChunk);
        \* calls keeps the two in the order made, with the handler they were made for
        a3 == [a2 EXCEPT !.stored = Append(@, [id |-> moduleId, code |-> moduleCode]),
                         !.emitted = Append(@, emittedChunk),
                         !.calls = @ \o <<[op |-> "set", id |-> moduleId, handler |-> f.nodeAt],
                                          [op |-> "emitFile", id |-> moduleId,
                                           handler |-> f.nodeAt]>>]
        a4 == debugLog(a3, opts, host, absoluteId, "emitted client chunk")
    IN  IF acc.failed THEN acc
        ELSE IF f.unsafe
        THEN fail(acc, host, Message("is used as a callable value", absoluteId, <<f.functionName>>))
        ELSE IF f.unresolved # <<>> /\ unresolvedPolicyOf(opts) = "error"
        THEN fail(a1, host, unresolvedMessage)
        ELSE IF (f.nodeType = "FunctionDeclaration" \/ f.isNamedDefaultFunction)
                /\ f.functionName = ""
        THEN debugLog(a4, opts, host, absoluteId, "skipping function declaration")
        ELSE [a4 EXCEPT !.replacements =
                 Append(@, [start |-> f.span.start, end |-> f.span.end,
                            replacement |-> ReplacementText(f, refId)])]

HandlerStep(acc, f, absoluteId, fileHash, normalizedId, opts, host) ==
    \* one iteration of the handler loop; nothing happens after a throw
    LET spanMessage == Message("debug", absoluteId, <<"handler span">>)
        unresolvedMessage == Message("references values", absoluteId, f.unresolved)
        a1 == debugLog(acc, opts, host, absoluteId, "handler span")
        a2 == IF f.unresolved # <<>> /\ unresolvedPolicyOf(opts) = "warn"
              THEN warn(a1, host, unresolvedMessage) ELSE a1
        hash     == Sha1(<<fileHash, f.start, normalizedId>>)
        moduleId == InlineModuleId(absoluteId, hash)
        moduleCode == <<"\"use client\";", "\n", "\n">> \o f.importCode \o f.declarationCode
                      \o f.exportedHandlerCode \o <<"\n">>
        refId == RefTokens[Len(acc.emitted) + 1]
        emittedChunk == [type |-> "chunk", id |-> moduleId,
                         fileName |-> [dir |-> "assets", base |-> moduleId.base,
                                       hash |-> hash, ext |-> "client.js"],
                         moduleSideEffects |-> FALSE, ref |-> refId]
        \* inlineRegistry.set(moduleId, moduleCode), then this.emitFile(emittedChunk);
        \* calls keeps the two in the order made, with the handler they were made for
        a3 == [a2 EXCEPT !.stored = Append(@, [id |-> moduleId, code |-> moduleCode]),
                         !.emitted = Append(@, emittedChunk),
                         !.calls = @ \o <<[op |-> "set", id |-> moduleId, handler |-> f.nodeAt],
                                          [op |-> "emitFile", id |-> moduleId,
                                           handler |-> f.nodeAt]>>]
        a4 == debugLog(a3, opts, host, absoluteId, "emitted client chunk")
    IN  IF acc.failed THEN acc
        ELSE IF f.unsafe
        THEN fail(acc, host, Message("is used as a callable value", absoluteId, <<f.functionName>>))
        ELSE IF f.span.start < 0 \/ f.span.end > f.codeLength \/ f.span.start >= f.span.end
        THEN debugLog(a1, opts, host, absoluteId, "skipping out-of-range span")
        ELSE IF f.unresolved # <<>> /\ unresolvedPolicyOf(opts) = "error"
        THEN fail(a1, host, unresolvedMessage)
        ELSE IF (f.nodeType = "FunctionDeclaration" \/ f.isNamedDefaultFunction)
                /\ f.functionName = ""
        THEN debugLog(a4, opts, host, absoluteId, "skipping function declaration")
        ELSE [a4 EXCEPT !.replacements =
                 Append(@, [start |-> f.span.start, end |-> f.span.end,
                            replacement |-> ReplacementText(f, refId)])]

RECURSIVE HandlerLoop(_, _, _, _, _, _, _, _)
HandlerLoop(acc, handlers, k, absoluteId, fileHash, normalizedId, opts, host) ==
    IF k > Len(handlers) THEN acc
    ELSE HandlerLoop(HandlerStep(acc, handlers[k], absoluteId, fileHash, normalizedId, opts, host),
                     handlers, k + 1, absoluteId, fileHash, normalizedId, opts, host)


Returns(acc, watched, code) ==
    [outcome |-> IF acc.failed THEN "throw" ELSE IF code = <<>> THEN "nothing" ELSE "code",
     code |-> code,
     watch |-> watched,
     thrown |-> acc.thrown, hostErrors |-> acc.hostErrors, warns |-> acc.warns,
     stored |-> acc.stored, emitted |-> acc.emitted,
     replacements |-> acc.replacements, calls |-> acc.calls]

Transformed(looped, code, absoluteId) ==
    \* after the handler loop: nothing without replacements, else the spliced code
    IF looped.failed \/ looped.replacements = <<>>
    THEN Returns(looped, <<absoluteId>>, <<>>)
    ELSE Returns(looped, <<absoluteId>>,
                 ApplyReplacements(code, SortByStartDesc(looped.replacements)))

ParseFailedLenient(absoluteId, opts, host) ==
    \* warns and skips the module in strict mode too
    Returns(debugLog(warn(NoEffects, host,
                          Message("failed to parse", absoluteId, <<"syntax error">>)),
                     opts, host, absoluteId, "failed to parse"),
            <<absoluteId>>, <<>>)

ParseFailed(absoluteId, opts, host) ==
    \* the catch block around parseModule(code)
    IF opts.strict
    THEN Returns(fail(NoEffects, host,
                      Message("failed to parse", absoluteId, <<"syntax error">>)),
                 <<absoluteId>>, <<>>)
    ELSE Returns(debugLog(warn(NoEffects, host,
                               Message("failed to parse", absoluteId, <<"syntax error">>)),
                          opts, host, absoluteId, "failed to parse"),
                 <<absoluteId>>, <<>>)

Handled(facts, absoluteId, opts, host) ==
    \* from the parse on
    IF ~facts.parses THEN ParseFailed(absoluteId, opts, host)
    ELSE IF facts.found = 0
    THEN Returns(debugLog(NoEffects, opts, host, absoluteId, "no inline handlers found"),
                 <<absoluteId>>, <<>>)
    ELSE IF facts.sideEffectImports > 0
    THEN Returns(fail(debugLog(NoEffects, opts, host, absoluteId, "processing"), host,
                      Message("side-effect imports are not allowed", absoluteId, facts.snippet)),
                 <<absoluteId>>, <<>>)
    ELSE Transformed(HandlerLoop(debugLog(NoEffects, opts, host, absoluteId, "processing"),
                                 facts.handlers, 1, absoluteId, Sha1(facts.code),
                                 pathResolve(absoluteId), opts, host),
                     facts.code, absoluteId)

TransformWith(facts, id, opts, host) ==
    IF id.virtual THEN Returns(NoEffects, <<>>, <<>>)
    ELSE IF ~facts.contains THEN Returns(NoEffects, <<>>, <<>>)
    ELSE Handled(facts, IF isAbsolute(id) THEN id ELSE pathResolve(id), opts, host)

(***************************************************************************)
(* Plugin instances and their hooks                                        *)
(***************************************************************************)
Instances == {"A", "B"}

NoLoad   == [found |-> FALSE, code |-> <<>>, map |-> "null", moduleType |-> ""]
NoId     == [none |-> TRUE]                              \* null or undefined
NoCall ==
    [op |-> "none", inst |-> "", src |-> [lead |-> <<>>, stmts |-> <<>>, base |-> 0], id |-> PathId(TRUE, TRUE, <<>>),
     host |-> [error |-> FALSE, warn |-> FALSE],
     result |-> [outcome |-> "nothing", code |-> <<>>, watch |-> <<>>, thrown |-> NoMessage,
                 hostErrors |-> <<>>, warns |-> <<>>, stored |-> <<>>, emitted |-> <<>>,
                 replacements |-> <<>>, calls |-> <<>>],
     loaded |-> NoLoad,
     \* resolveId: the importer and the host resolver's answer; the span utilities:
     \* the text and the byte offset or span; and what the call returned
     importer |-> NoId, hostAnswer |-> NoId, resolver |-> FALSE, hostCalls |-> <<>>,
     text |-> <<>>, target |-> 0,
     span |-> [start |-> 0, end |-> 0], answer |-> NoId]

BuildStartKeeping(i) ==
    \* buildStart of a plugin that keeps the entries of earlier builds
    /\ history' = [history EXCEPT ![i] = {}]
    /\ last' = [NoCall EXCEPT !.op = "buildStart", !.inst = i]
    /\ UNCHANGED <<options, registry, chunks, ncalls>>

BuildStartGlobal(i) ==
    \* buildStart of a plugin whose registry is one process-wide map: it clears
    \* the entries of every instance
    /\ registry' = [j \in Instances |-> RegistryClear(registry[j])]
    /\ history' = [history EXCEPT ![i] = {}]
    /\ last' = [NoCall EXCEPT !.op = "buildStart", !.inst = i]
    /\ UNCHANGED <<options, chunks, ncalls>>

BuildStart(i) ==
    /\ registry' = [registry EXCEPT ![i] = RegistryClear(@)]
    /\ history' = [history EXCEPT ![i] = {}]
    /\ last' = [NoCall EXCEPT !.op = "buildStart", !.inst = i]
    /\ UNCHANGED <<options, chunks, ncalls>>

Effects(i, r, call) ==
    \* the registry sets and host emits of the call, and the record of the call
    /\ registry' = [registry EXCEPT ![i] = RegistrySetAll(@, r.stored)]
    /\ chunks' = [chunks EXCEPT ![i] = @ \o r.emitted]
    /\ history' = [history EXCEPT ![i] = @ \cup {r.stored[k] : k \in DOMAIN r.stored}]
    /\ last' = [call EXCEPT !.inst = i, !.result = r]
    /\ ncalls' = ncalls + 1
    /\ UNCHANGED options

TransformCall(i, src, id, host) ==
    Effects(i, TransformWith(Facts[src], id, options[i], host),
            [NoCall EXCEPT !.op = "transform", !.src = src, !.id = id, !.host = host])

loadAsJs(reg, id) ==
    \* answers a stored id with moduleType "js"
    IF ~("prefix" \in DOMAIN id /\ id.prefix = INLINE_ID_PREFIX) THEN NoLoad
    ELSE IF id \notin DOMAIN reg THEN NoLoad
    ELSE [found |-> TRUE, code |-> RegistryGet(reg, id), map |-> "null", moduleType |-> "js"]

load(reg, id) ==
    IF ~("prefix" \in DOMAIN id /\ id.prefix = INLINE_ID_PREFIX) THEN NoLoad
    ELSE IF id \notin DOMAIN reg THEN NoLoad
    ELSE [found |-> TRUE, code |-> RegistryGet(reg, id), map |-> "null", moduleType |-> "tsx"]

\* The ids a host may ask to load: every id some instance stored or emitted a chunk
\* for, an inline id nobody stored, and a plain path.
LoadIds ==
    UNION {DOMAIN registry[i] : i \in Instances}
    \cup UNION {{chunks[i][k].id : k \in DOMAIN chunks[i]} : i \in Instances}
    \cup {InlineModuleId(PathId(FALSE, TRUE, <<"a">>), Sha1(<<>>)), PathId(FALSE, TRUE, <<"a">>)}

Load(i) ==
    \E id \in LoadIds :
        /\ last' = [NoCall EXCEPT !.op = "load", !.inst = i, !.id = id,
                                  !.loaded = load(registry[i], id)]
        /\ UNCHANGED <<options, registry, chunks, ncalls, history>>

\* The lifecycle specification drives both instances through a few calls on a
\* handful of sources; the transform specification makes one call on any source.
LifecycleHosts   == {h \in Hosts : h.error = h.warn}
LifecycleIds     == {id \in PathIds : ~id.virtual /\ id.dir = <<"a">>}
LifecycleSources ==
    {[lead |-> <<>>, stmts |-> ss, base |-> 0] :
        ss \in {<<"ArrowHandler", "ConstLabel">>, <<"ArrowHandler", "ArrowRefs">>,
                <<"Garbage">>, <<"ConstLabel">>, <<"FnDeclTop", "CallTop">>}}

Transform(i) ==
    /\ ncalls < MaxCalls
    /\ \E src \in LifecycleSources, id \in LifecycleIds, host \in LifecycleHosts :
           TransformCall(i, src, id, host)

TransformAny ==
    /\ ncalls = 0
    /\ \E src \in Sources, id \in PathIds, host \in Hosts : TransformCall("A", src, id, host)

\* The sources whose text holds a URL expression: only these can be the text a
\* transform call returned.
Rewritten == {s \in Sources : UrlExpression("ref_0")[1] \in Range(Code[s])}

\* transform once more, on the code the call before returned and with the same id:
\* code without the "use client" text is left before it is parsed, other code is
\* parsed, from any base, when it is the text of a source
TransformAgain ==
    /\ ncalls = 1
    /\ last.op = "transform"
    /\ last.result.outcome = "code"
    /\ \E src \in IF maybeContainsUseClient(last.result.code)
                   THEN {s \in Rewritten : Code[s] = last.result.code}
                   ELSE {[lead |-> last.result.code, stmts |-> <<>>, base |-> 0]} :
           Effects("A", TransformWith(IF maybeContainsUseClient(last.result.code)
                                      THEN Facts[src] ELSE [contains |-> FALSE],
                                      last.id, options["A"], last.host),
                   [NoCall EXCEPT !.op = "transformAgain", !.src = src, !.id = last.id,
                                  !.host = last.host, !.text = last.result.code])

\* transform of a module for which the span computed for one handler, from what
\* the parser reported, is the given one: out of range or empty
TransformSkewed ==
    /\ ncalls = 0
    /\ \E src \in {[lead |-> <<>>, stmts |-> ss, base |-> 0] :
                     ss \in {<<"ArrowRefs", "ArrowHandler">>, <<"ArrowHandler", "ArrowHandler">>,
                             <<"ExportFnTop", "ArrowRefs">>, <<"FnDeclTop", "CallTop">>,
                             <<"ArrowHandler">>}},
          id \in {i \in PathIds : ~i.virtual}, host \in Hosts :
       \E k \in DOMAIN Facts[src].handlers :
       \E sp \in {[start |-> -1, end |-> 2],
                  [start |-> 0, end |-> Len(Code[src]) + 1],
                  [start |-> 4, end |-> 4],
                  [start |-> 5, end |-> 3],
                  [start |-> Len(Code[src]), end |-> Len(Code[src])]} :
           Effects("A", TransformWith([Facts[src] EXCEPT !.handlers[k].span = sp],
                                      id, options["A"], host),
                   [NoCall EXCEPT !.op = "transformSkewed", !.src = src, !.id = id,
                                  !.host = host, !.target = k, !.span = sp])

parseInlineModulePathKeepingQuery(inlineId) ==
    \* the id without its prefix
    [f \in DOMAIN inlineId \ {"prefix"} |-> inlineId[f]] @@ [abs |-> TRUE]

parseInlineModulePath(inlineId) ==
    \* the id without its prefix, up to the first "?"
    [abs |-> TRUE, dir |-> inlineId.dir, base |-> inlineId.base,
     hash |-> inlineId.hash, ext |-> inlineId.ext]

resolveId(id, importer, resolved) ==
    \* resolved is what this.resolve?.(id, importerPath, { skipSelf: true }) answers,
    \* NoId when the host has no resolver or the resolver answers null
    LET inline(x) == "prefix" \in DOMAIN x /\ x.prefix = INLINE_ID_PREFIX
    IN  IF importer # NoId /\ inline(importer) /\ resolved # NoId THEN resolved
        ELSE IF importer # NoId /\ inline(importer) /\ ~inline(id) /\ isAbsolute(id) THEN id
        ELSE IF importer # NoId /\ inline(importer) /\ ~inline(id) /\ Head(id.dir) = "."
        THEN \* path.resolve(path.dirname(importerPath), id)
             [id EXCEPT !.abs = TRUE, !.dir = parseInlineModulePath(importer).dir \o Tail(id.dir)]
        ELSE IF inline(id) THEN id
        ELSE NoId

\* One resolveId call: the id is an inline module id, an absolute path, a relative
\* path or a bare specifier; the importer is absent, a path, an inline module id or
\* an inline module id followed by a query string; the host has a resolver or none.
ResolveIdAny ==
    /\ ncalls = 0
    /\ \E id \in {InlineModuleId(PathId(FALSE, TRUE, <<"a">>), Sha1(<<>>)),
                   PathId(FALSE, TRUE, <<"a">>), PathId(FALSE, FALSE, <<".", "b">>),
                   PathId(FALSE, FALSE, <<"pkg">>)},
          importer \in {NoId, PathId(FALSE, TRUE, <<"a">>),
                         InlineModuleId(PathId(FALSE, TRUE, <<"c">>), Sha1(<<>>)),
                         [prefix |-> INLINE_ID_PREFIX, dir |-> <<"c">>, base |-> "x",
                          hash |-> Sha1(<<>>), ext |-> "client.tsx", query |-> "v=1"]},
          resolver \in BOOLEAN,
          resolved \in {NoId, PathId(FALSE, TRUE, <<"elsewhere">>)} :
           /\ ~resolver => resolved = NoId
           /\ last' = [NoCall EXCEPT
                  !.op = "resolveId", !.inst = "A", !.id = id,
                  !.importer = importer, !.hostAnswer = resolved,
                  !.resolver = resolver,
                  !.hostCalls = IF resolver /\ importer # NoId /\ "prefix" \in DOMAIN importer
                                THEN <<[id |-> id, importer |-> parseInlineModulePath(importer),
                                        skipSelf |-> TRUE]>>
                                ELSE <<>>,
                  !.answer = resolveId(id, importer, resolved)]
    /\ ncalls' = ncalls + 1
    /\ UNCHANGED <<options, registry, chunks, history>>

\* One call of the byte-offset lookup of a well-formed text, at a byte offset and at
\* the next one.
LookupAny ==
    /\ ncalls = 0
    /\ \E text \in UNION {[1..n -> {"a", "e_acute", "euro", "hi_surrogate", "lo_surrogate"}] :
                               n \in 0..MaxText},
          target \in -1..(4 * MaxText + 1) :
           /\ \A k \in 1..Len(text) :
                  /\ IsHighSurrogate(text[k]) => k < Len(text) /\ text[k + 1] = "lo_surrogate"
                  /\ text[k] = "lo_surrogate" => k > 1 /\ IsHighSurrogate(text[k - 1])
           /\ last' = [NoCall EXCEPT !.op = "toIndex", !.text = text, !.target = target,
                           !.answer = <<toIndex(createByteOffsetLookup(text), target),
                                        toIndex(createByteOffsetLookup(text), target + 1)>>]
    /\ ncalls' = ncalls + 1
    /\ UNCHANGED <<options, registry, chunks, history>>

\* One call of trimForReplacement on a span of a text.
TrimAny ==
    /\ ncalls = 0
    /\ \E text \in UNION {[1..n -> {"a", ";", " "}] : n \in 0..MaxText + 1} :
       \E start \in 0..Len(text) :
       \E end \in start..Len(text) :
           last' = [NoCall EXCEPT !.op = "trimForReplacement", !.text = text,
                       !.span = [start |-> start, end |-> end],
                       !.answer = trimForReplacement([start |-> start, end |-> end], text)]
    /\ ncalls' = ncalls + 1
    /\ UNCHANGED <<options, registry, chunks, history>>

Built(opts) ==
    \* the state right after inlineClientHandlers(opts[i]) for every instance i
    /\ options = opts
    /\ registry = [i \in Instances |-> createInlineClientRegistry]
    /\ chunks = [i \in Instances |-> <<>>]
    /\ history = [i \in Instances |-> {}]
    /\ last = NoCall
    /\ ncalls = 0

Init ==
    \E opts \in [Instances -> {o \in Options : o.unresolved = "unset" /\ ~o.debug}] : Built(opts)

Next == \E i \in Instances : BuildStart(i) \/ Transform(i) \/ Load(i)

Spec == Init /\ [][Next]_vars

InitTransform == \E o \in Options : Built([i \in Instances |-> o])

NextTransform == TransformAny \/ TransformAgain \/ TransformSkewed \/ ResolveIdAny \/ LookupAny \/ TrimAny

SpecTransform == InitTransform /\ [][NextTransform]_vars

(***************************************************************************)
(* Properties                                                              *)
(***************************************************************************)
\* What the properties say about a source is read off its syntax, not off what
\* the plugin computed for it.
RECURSIVE ShapesIn(_)
ShapesIn(sh) ==
    \* the shape and every shape below it
    {sh} \cup UNION {ShapesIn(sh.parts[k].node) :
                        k \in {j \in 1..Len(sh.parts) : sh.parts[j].kind = "kid"}}

PartsUnder(sh, key) ==
    LET ps == SelectSeq(sh.parts, LAMBDA p : p.kind = "kid" /\ p.key = key)
    IN  [k \in 1..Len(ps) |-> ps[k].node]

IsQualifyingHandler(sh) ==
    \* a block-bodied arrow or function whose first statement is the directive
    /\ sh.type \in {"ArrowFunctionExpression", "FunctionExpression", "FunctionDeclaration"}
    /\ \E body \in {PartsUnder(sh, "body")[k] : k \in 1..Len(PartsUnder(sh, "body"))} :
           /\ body.type = "BlockStatement"
           /\ PartsUnder(body, "stmts") # <<>>
           /\ PartsUnder(body, "stmts")[1] = Directive

QualifyingHandlers == [src \in Sources |->
                          {sh \in ShapesIn(ModuleShape(src)) : IsQualifyingHandler(sh)}]

IsSideEffectImport(sh) ==
    /\ sh.type = "ImportDeclaration"
    /\ PartsUnder(sh, "specifiers") = <<>>
    /\ "typeOnly" \notin sh.flags

SideEffectImportTexts(src) ==
    LET ks == SelectSeq(src.stmts, LAMBDA name : IsSideEffectImport(StmtShape(name)))
    IN  [k \in 1..Len(ks) |-> PrintShape(StmtShape(ks[k]))]

\* The last call was a transform call of instance "A" on a module the plugin handles.
Transformed1 == last.op = "transform" /\ ~last.id.virtual
AbsoluteId == IF isAbsolute(last.id) THEN last.id ELSE pathResolve(last.id)
NothingDone ==
    \* the call emitted no chunk and stored nothing, and the instance holds nothing
    /\ last.result.emitted = <<>>
    /\ last.result.stored = <<>>
    /\ chunks[last.inst] = <<>>
    /\ registry[last.inst] = createInlineClientRegistry

\* C1: an instance's load hook answers an inline module id exactly when that
\* instance's own transform calls stored it since its own last buildStart, and
\* with the text it stored: never from what the other instance stored, and the
\* other instance's buildStart removes nothing of it.
C1_LoadAnswersOnlyOwnStores ==
    /\ \A i \in Instances :
          \A id \in LoadIds \cup {e.id : e \in history[i]} :
              /\ load(registry[i], id).found <=> \E e \in history[i] : e.id = id
              /\ load(registry[i], id).found =>
                     [id |-> id, code |-> load(registry[i], id).code] \in history[i]
    /\ (last.op = "load" /\ last.loaded.found) =>
           [id |-> last.id, code |-> last.loaded.code] \in history[last.inst]

\* C1 witness: instance A, holding an entry of its own, is asked for an id that
\* only instance B stored and answers nothing.
C1_Witness ==
    /\ last.op = "load" /\ last.inst = "A"
    /\ history["A"] # {}
    /\ \E e \in history["B"] : e.id = last.id
    /\ \A e \in history["A"] : e.id # last.id
    /\ ~last.loaded.found

\* C2: a module that parses and has no qualifying handler gets nothing back from
\* transform: no chunk, no registry entry, no error, side-effect imports or not.
C2_NoHandlerNoEffect ==
    (Transformed1 /\ Parses(last.src) /\ QualifyingHandlers[last.src] = {}) =>
        /\ last.result.outcome = "nothing"
        /\ last.result.thrown = NoMessage
        /\ last.result.hostErrors = <<>>
        /\ NothingDone

\* C2 witness: a module with a side-effect import and a "use client" string that
\* is not the first statement of its function body.
C2_Witness ==
    /\ Transformed1
    /\ last.src.stmts = <<"ImportBare", "NotLeading">>
    /\ last.result.outcome = "nothing"

\* C3: a module with a qualifying handler and a side-effect import makes transform
\* throw the side-effect-import error quoting the first such import, under every
\* option setting, before any chunk is emitted or registry entry stored.
C3_SideEffectImportIsFatal ==
    (/\ Transformed1 /\ Parses(last.src)
     /\ QualifyingHandlers[last.src] # {}
     /\ SideEffectImportTexts(last.src) # <<>>) =>
        /\ last.result.outcome = "throw"
        /\ last.result.thrown = Message("side-effect imports are not allowed", AbsoluteId,
                                        SideEffectImportTexts(last.src)[1])
        /\ last.host.error => last.result.hostErrors = <<last.result.thrown>>
        /\ NothingDone

\* C3 witness: the error is thrown although the options ask for the least strictness.
C3_Witness ==
    /\ Transformed1
    /\ last.src.stmts = <<"ImportBare", "ArrowHandler">>
    /\ ~options["A"].strict /\ options["A"].unresolved = "ignore"
    /\ last.result.outcome = "throw"
    /\ last.result.thrown.kind = "side-effect imports are not allowed"

\* The templates that declare the handler `top` as a hoisted function, the ones
\* that use `top` as a callable where nothing rebinds it, and the ones whose
\* callable use of `top` sits in a scope that rebinds it.
TopDeclarations == {"FnDeclTop", "ExportFnTop", "DefaultFnTop"}
CallableUses    == {"CallTop", "NewTop", "TagTop"}
ShadowedUses    == {"ShadowParam", "ShadowBlock", "ShadowCatch", "ShadowMethod"}

HasUnsafeTop(src) ==
    \/ "BlockFnCalled" \in Range(src.stmts)
    \/ /\ Range(src.stmts) \cap TopDeclarations # {}
       /\ Range(src.stmts) \cap CallableUses # {}

CallableError == Message("is used as a callable value", AbsoluteId, <<"top">>)

EffectivePolicy ==
    \* the policy as the claim words it
    IF options["A"].unresolved # "unset" THEN options["A"].unresolved
    ELSE IF options["A"].strict THEN "error" ELSE "warn"

C5_ShadowedUsesAreIgnored ==
    (/\ Transformed1
     /\ Range(last.src.stmts) \cap TopDeclarations # {}
     /\ Range(last.src.stmts) \subseteq TopDeclarations \cup ShadowedUses) =>
        /\ last.result.outcome = "code"
        /\ last.result.thrown = NoMessage
        /\ last.result.emitted # <<>>

\* The handler of the ArrowRefs template reads `submit` and `label`; each is
\* unresolved unless the module imports or declares it at top level.
UnresolvedOfArrowRefs(src) ==
    SelectSeq(<<"submit", "label">>, LAMBDA name :
        /\ name = "submit" => "ImportSubmit" \notin Range(src.stmts)
        /\ name = "label"  => "ConstLabel" \notin Range(src.stmts))

HasUnresolvedHandler(src) ==
    "ArrowRefs" \in Range(src.stmts) /\ UnresolvedOfArrowRefs(src) # <<>>

UnresolvedMessage == Message("references values", AbsoluteId, UnresolvedOfArrowRefs(last.src))

IsUnresolvedMessage(m) == m.kind = "references values"

ChunkOfArrowRefs(entry) == "submit" \in Range(entry.code)      \* only that handler calls submit

UnresolvedCase == Transformed1 /\ Parses(last.src) /\ HasUnresolvedHandler(last.src)

UnresolvedOutcome ==
    \* what C6 promises for each policy
    /\ EffectivePolicy = "error" =>
           /\ last.result.outcome = "throw"
           /\ last.result.thrown = UnresolvedMessage
           /\ \A k \in DOMAIN last.result.stored : ~ChunkOfArrowRefs(last.result.stored[k])
    /\ EffectivePolicy = "warn" =>
           /\ last.host.warn => \E k \in DOMAIN last.result.warns :
                                    last.result.warns[k] = UnresolvedMessage
           /\ last.result.outcome = "code"
    /\ EffectivePolicy = "ignore" =>
           /\ \A k \in DOMAIN last.result.warns : ~IsUnresolvedMessage(last.result.warns[k])
           /\ last.result.thrown = NoMessage
           /\ last.result.hostErrors = <<>>
           /\ last.result.outcome = "code"

C7_ParseFailureStep ==
    (/\ last'.op = "transform" /\ ~last'.id.virtual
     /\ UseClientString \in Range(Code[last'.src])
     /\ ~Parses(last'.src)) =>
        LET failure == Message("failed to parse",
                               IF isAbsolute(last'.id) THEN last'.id ELSE pathResolve(last'.id),
                               <<"syntax error">>)
        IN  /\ options[last'.inst].strict =>
                /\ last'.result.outcome = "throw"
                /\ last'.result.thrown = failure
            /\ ~options[last'.inst].strict =>
                /\ last'.result.outcome = "nothing"
                /\ last'.result.thrown = NoMessage
                /\ last'.host.warn => last'.result.warns # <<>>
                /\ \A k \in DOMAIN last'.result.warns : last'.result.warns[k] = failure
            /\ last'.result.emitted = <<>>
            /\ chunks' = chunks
            /\ registry' = registry

\* C7: every transform step on a source that holds "use client" and fails to
\* parse is fatal with "failed to parse" in strict mode, warns with that message
\* and returns nothing otherwise, emits no chunk and leaves every registry as it was.
C7_ParseFailure == [][C7_ParseFailureStep]_vars

\* C7 witness: a non-strict instance that already holds an entry warns about an
\* unparseable source and returns nothing.
C7_Witness ==
    /\ last.op = "transform"
    /\ last.src.stmts = <<"Garbage">>
    /\ ~options[last.inst].strict
    /\ last.result.outcome = "nothing"
    /\ last.result.warns # <<>>
    /\ registry[last.inst] # createInlineClientRegistry

\* Every qualifying handler of a shape, with the shape that holds it.
RECURSIVE HandlerOccurrences(_, _)
HandlerOccurrences(sh, parent) ==
    (IF IsQualifyingHandler(sh) THEN {[node |-> sh, parent |-> parent]} ELSE {})
    \cup UNION {HandlerOccurrences(sh.parts[k].node, sh) :
                   k \in {j \in 1..Len(sh.parts) : sh.parts[j].kind = "kid"}}

NameOf(sh) ==
    LET id == PartsUnder(sh, "identifier") IN IF id = <<>> THEN "" ELSE id[1].value

Occurrences == [src \in Sources |-> HandlerOccurrences(ModuleShape(src), NoShape)]

\* What C8 prescribes for a handler: the text that is replaced and what replaces it.
ReplacedText(h) ==
    IF \/ h.node.type = "FunctionDeclaration" /\ h.parent.type = "ExportDeclaration"
       \/ /\ h.node.type = "FunctionExpression" /\ NameOf(h.node) # ""
          /\ h.parent.type = "ExportDefaultDeclaration"
    THEN PrintShape(h.parent)
    ELSE PrintShape(h.node)

PrescribedText(h, ref) ==
    LET U    == <<"new URL(import.meta.ROLLUP_FILE_URL_", ref, ").pathname">>
        Name == NameOf(h.node)
    IN  IF h.node.type = "FunctionDeclaration" /\ h.parent.type = "ExportDeclaration"
        THEN <<"export", " ", "const", " ", Name, " ", "=", " ">> \o U \o <<";">>
        ELSE IF h.node.type = "FunctionDeclaration"
        THEN <<"const", " ", Name, " ", "=", " ">> \o U \o <<";">>
        ELSE IF /\ h.node.type = "FunctionExpression" /\ Name # ""
                /\ h.parent.type = "ExportDefaultDeclaration"
        THEN <<"const", " ", Name, " ", "=", " ">> \o U
             \o <<";", " ", "export", " ", "default", " ", Name, ";">>
        ELSE U

C9_RangesDisjoint ==
    Transformed1 =>
        LET rs == last.result.replacements
        IN  /\ \A k \in DOMAIN rs :
                   0 <= rs[k].start /\ rs[k].start < rs[k].end
                   /\ rs[k].end <= Len(Code[last.src])
            /\ \A j, k \in DOMAIN rs :
                   j # k => rs[j].end <= rs[k].start \/ rs[k].end <= rs[j].start

\* The source with every planned range replaced at once: the text before the
\* first range, then, range by range in source order, the replacement and the
\* text up to the next range.
RECURSIVE SplicedFrom(_, _, _)
SplicedFrom(code, rs, from) ==
    IF rs = {} THEN Slice(code, from, Len(code))
    ELSE LET r == CHOOSE a \in rs : \A b \in rs : a.start <= b.start
         IN  Slice(code, from, r.start) \o r.replacement
             \o SplicedFrom(code, rs \ {r}, r.end)

LengthChange(rs) ==
    SumSeq([k \in DOMAIN rs |-> Len(rs[k].replacement) - (rs[k].end - rs[k].start)])

\* C10: the code transform returns is the source with all planned ranges replaced
\* at once, every character outside them kept in place and in order, and its
\* length is the source's plus the sum of (replacement length - range length).
C10_SimultaneousSplice ==
    (Transformed1 /\ last.result.outcome = "code") =>
        /\ last.result.code = SplicedFrom(Code[last.src], Range(last.result.replacements), 0)
        /\ Len(last.result.code)
               = Len(Code[last.src]) + LengthChange(last.result.replacements)

\* Where a token that occurs once in a text stands (1-based), 0 when it is absent.
PositionOf(code, tok) ==
    IF \E p \in 1..Len(code) : code[p] = tok
    THEN CHOOSE p \in 1..Len(code) : code[p] = tok
    ELSE 0

TrimCalled == last.op = "trimForReplacement"

\* What trimForReplacement may do to a span: keep the start, and drop from the end
\* whitespace, then at most one `;`, then whitespace.
TrimsOnlyTrailingSeparator ==
    LET removed == Slice(last.text, last.answer.end, last.span.end)
    IN  /\ last.answer.start = last.span.start
        /\ last.answer.start <= last.answer.end
        /\ last.answer.end <= last.span.end
        /\ \A k \in DOMAIN removed : IsWhitespace(removed[k]) \/ removed[k] = ";"
        /\ Cardinality({k \in DOMAIN removed : removed[k] = ";"}) <= 1

C12_NameStep ==
    (last.op = "transform" /\ last'.op = "transform") =>
        /\ \A j \in DOMAIN last.result.emitted, k \in DOMAIN last'.result.emitted :
               LET same == /\ Code[last.src] = Code[last'.src]
                           /\ last.result.calls[2 * j].handler[1]
                                  = last'.result.calls[2 * k].handler[1]
                           /\ pathResolve(last.id) = pathResolve(last'.id)
               IN  /\ same <=> last.result.emitted[j].fileName = last'.result.emitted[k].fileName
                   /\ same <=> last.result.emitted[j].id = last'.result.emitted[k].id
        /\ \A j, k \in DOMAIN last'.result.emitted :
               j # k => /\ last'.result.emitted[j].fileName # last'.result.emitted[k].fileName
                        /\ last'.result.emitted[j].id # last'.result.emitted[k].id

C13_EmitsInSourceOrder ==
    Transformed1 =>
        \A j, k \in DOMAIN last.result.calls :
            last.result.calls[j].handler[1] < last.result.calls[k].handler[1] => j < k

\* C14: a transform call stores each handler's module text under its inline
\* module id right before it emits the chunk with that id, moduleSideEffects
\* false and the file name assets/<base>.<hash>.client.js; from then until the
\* instance's next buildStart load of that id answers exactly the stored text,
\* map null and moduleType "tsx"; load of an id without the prefix declines.
C14_StoredBeforeEmittedThenLoadable ==
    /\ last.op = "transform" =>
           LET r == last.result
           IN  /\ Len(r.stored) = Len(r.emitted) /\ Len(r.calls) = 2 * Len(r.emitted)
               /\ \A k \in DOMAIN r.emitted :
                      /\ r.calls[2 * k - 1].op = "set"
                      /\ r.calls[2 * k - 1].id = r.emitted[k].id
                      /\ r.calls[2 * k].op = "emitFile"
                      /\ r.calls[2 * k].id = r.emitted[k].id
                      /\ r.stored[k].id = r.emitted[k].id
                      /\ r.emitted[k].id.prefix = INLINE_ID_PREFIX
                      /\ r.emitted[k].type = "chunk"
                      /\ r.emitted[k].moduleSideEffects = FALSE
                      /\ r.emitted[k].fileName =
                             [dir |-> "assets", base |-> last.id.base,
                              hash |-> r.emitted[k].id.hash, ext |-> "client.js"]
                      /\ load(registry[last.inst], r.emitted[k].id).code = r.stored[k].code
    /\ last.op = "load" =>
           /\ \A s \in history[last.inst] :
                  s.id = last.id =>
                      last.loaded = [found |-> TRUE, code |-> s.code, map |-> "null",
                                     moduleType |-> "tsx"]
           /\ "prefix" \notin DOMAIN last.id => last.loaded = NoLoad

\* C14 witness: after a later transform call of the same instance, load answers
\* an id stored by an earlier call with the text stored then.
C14_Witness ==
    /\ last.op = "load"
    /\ last.loaded.found /\ last.loaded.moduleType = "tsx"
    /\ Len(chunks[last.inst]) >= 2
    /\ chunks[last.inst][1].id = last.id
    /\ chunks[last.inst][Len(chunks[last.inst])].id # last.id
    /\ \E s \in history[last.inst] : s.id = last.id /\ s.code = last.loaded.code

\* The ids of the chunks an instance emitted in any build, and those it stored in
\* the current one.
EmittedIds(i) == {chunks[i][k].id : k \in DOMAIN chunks[i]}
StoredIds(i) == {s.id : s \in history[i]}

\* C15: buildStart leaves the instance's registry empty; load of an inline module
\* id stored in an earlier build declines until a transform call of the current
\* build stores that id again, and then it answers with a text.
C15_BuildStartForgets ==
    /\ last.op = "buildStart" =>
           /\ registry[last.inst] = createInlineClientRegistry
           /\ \A id \in EmittedIds(last.inst) : load(registry[last.inst], id) = NoLoad
    /\ (last.op = "load" /\ last.id \in EmittedIds(last.inst)) =>
           /\ last.id \notin StoredIds(last.inst) => last.loaded = NoLoad
           /\ last.id \in StoredIds(last.inst) =>
                  last.loaded.found /\ last.loaded.code # <<>>

\* C15 witness: an instance that stored an id, was restarted and has stored
\* another id since declines to load the first.
C15_Witness ==
    /\ last.op = "load"
    /\ last.id \in EmittedIds(last.inst)
    /\ last.id \notin StoredIds(last.inst)
    /\ StoredIds(last.inst) # {}
    /\ last.loaded = NoLoad

\* C16: resolveId returns an id that starts with the inline module prefix
\* unchanged, whatever the importer is (absent, a path, an inline module id) and
\* whatever the host resolver answers.
C16_InlineIdResolvesToItself ==
    (last.op = "resolveId" /\ "prefix" \in DOMAIN last.id) => last.answer = last.id

\* What a top-level statement binds and which names, globals aside, it reads from
\* the module scope, by template.
BindsOf(t) ==
    CASE t \in {"ImportSubmit", "ImportTypeBar"} -> {"submit"}   \* value bindings
      [] t = "ImportFormat" -> {"format"}
      [] t = "ConstLabel" -> {"label"}
      [] t \in {"ConstHelper", "ConstHelperLost"} -> {"helper"}
      [] t = "ArrowHandler" -> {"h"}
      [] t = "ArrowRefs" -> {"g"}
      [] t = "ArrowHelper" -> {"k"}
      [] t \in {"FnDeclTop", "ExportFnTop"} -> {"top"}
      [] t = "ValueUse" -> {"value"}
      [] t = "ShadowParam" -> {"invoke"}
      [] t = "ShadowMethod" -> {"K"}
      [] t = "NotLeading" -> {"n"}
      [] t = "StringOnly" -> {"s"}
      [] t = "ExprArrow" -> {"e"}
      [] t = "Nested" -> {"outer"}
      [] t = "ConstUnicode" -> {"u"}
      [] t = "ArrowTyped" -> {"t"}
      [] t = "FnTyped" -> {"typed"}
      [] t = "FnPing" -> {"ping"}
      [] t = "FnPong" -> {"pong"}
      [] t = "FnSelf" -> {"self"}
      [] t = "ConstPair" -> {"a", "b"}
      [] t = "ArrowPing" -> {"m"}
      [] t = "ArrowBoth" -> {"w"}
      [] t \in {"ArrowHoist", "ArrowAfter"} -> {"q"}
      [] t \in {"ArrowLate", "ArrowLocal"} -> {"p"}
      [] OTHER -> {}

ReadsOf(t) ==
    CASE t = "ConstHelper" -> {"format", "label"}
      [] t = "ConstHelperLost" -> {"missing"}
      [] t = "ArrowRefs" -> {"submit", "label"}
      [] t = "ArrowHelper" -> {"helper"}
      [] t = "FnTyped" -> {"submit"}
      [] t = "FnPing" -> {"pong"}
      [] t = "FnPong" -> {"ping"}
      [] t = "FnSelf" -> {"self"}
      [] t = "ConstPair" -> {"self", "a"}
      [] t = "ArrowPing" -> {"ping", "a", "b"}
      [] t = "ArrowBoth" -> {"submit", "helper"}
      [] t = "ArrowLocal" -> {"label"}
      [] t = "ValueUse" -> {"top"}
      [] OTHER -> {}

IsImportTemplate(t) ==
    t \in {"ImportBare", "ImportSubmit", "ImportFormat", "ImportTypeFoo", "ImportTypeBar"}

\* The code-unit range of every top-level statement of every source.
StmtAt ==
    [src \in Sources |->
        [k \in 1..Len(src.stmts) |->
            LET before == Len(src.lead)
                          + SumSeq([j \in 1..k - 1 |->
                                       Len(PrintShape(StmtShape(src.stmts[j]))) + 1])
            IN  <<before, before + Len(PrintShape(StmtShape(src.stmts[k])))>>]]

StatementOf(src, index) ==
    CHOOSE k \in 1..Len(src.stmts) : StmtAt[src][k][1] <= index /\ index < StmtAt[src][k][2]

\* The names a handler's closure reaches: the names it reads, and those read by
\* the declarations of reached names; a name bound by an import leads nowhere.
RECURSIVE Reach(_, _)
Reach(src, names) ==
    LET imported == UNION {BindsOf(src.stmts[j]) :
                              j \in {i \in 1..Len(src.stmts) : IsImportTemplate(src.stmts[i])}}
        more == names \cup UNION {ReadsOf(src.stmts[j]) :
                    j \in {i \in 1..Len(src.stmts) :
                              /\ ~IsImportTemplate(src.stmts[i])
                              /\ (BindsOf(src.stmts[i]) \cap names) \ imported # {}}}
    IN  IF more = names THEN names ELSE Reach(src, more)

\* The client module C17 prescribes for the handler at [from, to) of a source.
PrescribedModule(src, from, to) ==
    LET reached == Reach(src, ReadsOf(src.stmts[StatementOf(src, from)]))
        imported == UNION {BindsOf(src.stmts[j]) :
                              j \in {i \in 1..Len(src.stmts) : IsImportTemplate(src.stmts[i])}}
        TextOf(k) == Slice(Code[src], StmtAt[src][k][1], StmtAt[src][k][2])
        imports == SelectSeq([k \in 1..Len(src.stmts) |-> k], LAMBDA k :
                       IsImportTemplate(src.stmts[k]) /\ BindsOf(src.stmts[k]) \cap reached # {})
        decls == SelectSeq([k \in 1..Len(src.stmts) |-> k], LAMBDA k :
                     /\ ~IsImportTemplate(src.stmts[k])
                     /\ (BindsOf(src.stmts[k]) \cap reached) \ imported # {})
        handler == Slice(Code[src], from, to)
        at == PositionOf(handler, UseClientString)
    IN  <<"\"use client\";", "\n", "\n">>
        \o (IF imports = <<>> THEN <<>>
            ELSE JoinWith([k \in 1..Len(imports) |-> TextOf(imports[k])], <<"\n">>)
                 \o <<"\n", "\n">>)
        \o (IF decls = <<>> THEN <<>>
            ELSE JoinWith([k \in 1..Len(decls) |-> TextOf(decls[k])], <<"\n", "\n">>)
                 \o <<"\n", "\n">>)
        \o <<"export", "default">>
        \o SubSeq(handler, 1, at - 1) \o SubSeq(handler, at + 2, Len(handler))
        \o <<";", "\n", "\n">>

UnresolvedReached(src, i) ==
    Reach(src, ReadsOf(src.stmts[i])) \ UNION {BindsOf(src.stmts[j]) : j \in 1..Len(src.stmts)}

\* C18: every name the closure of a handler reaches, directly or through the
\* dependencies of a required declaration, that is no global, no import and no
\* top-level declaration is unresolved: under the error policy the call throws,
\* under the warn policy a call that returns code has warned with a message that
\* lists all of them, and a "references values" error lists all of them.
C18_EveryReachedNameIsReported ==
    (Transformed1 /\ Parses(last.src)) =>
        /\ \A i \in 1..Len(last.src.stmts) :
               (/\ last.src.stmts[i] \in {"ArrowRefs", "ArrowHelper"}
                /\ UnresolvedReached(last.src, i) # {}) =>
                   /\ EffectivePolicy = "error" => last.result.outcome = "throw"
                   /\ (EffectivePolicy = "warn" /\ last.host.warn
                       /\ last.result.outcome = "code") =>
                          \E k \in DOMAIN last.result.warns :
                              /\ last.result.warns[k].kind = "references values"
                              /\ Range(last.result.warns[k].detail)
                                     = UnresolvedReached(last.src, i)
        /\ last.result.thrown.kind = "references values" =>
               \E i \in 1..Len(last.src.stmts) :
                   Range(last.result.thrown.detail) = UnresolvedReached(last.src, i)

\* The UTF-8 width of a character by its first code unit (the second unit of a
\* supplementary character adds nothing), and the byte offset of a code-unit index.
WidthOf(u) ==
    CASE u = "e_acute" -> 2
      [] u \in {"euro", "BOM"} -> 3
      [] u = "hi_surrogate" -> 4
      [] u = "lo_surrogate" -> 0
      [] OTHER -> 1

ByteOffsetOf(code, index) == SumSeq([k \in 1..index |-> WidthOf(code[k])])

\* C19: toIndex maps the byte offset at which a character starts, and the end of
\* the text, to that character's code-unit index, where characters of one, two
\* and three bytes take one code unit and those of four bytes take two; offsets
\* at or below 0 map to 0, offsets at or beyond the byte length to the length of
\* the text; and toIndex(b) <= toIndex(b + 1).
C19_ToIndex ==
    last.op = "toIndex" =>
        /\ \A index \in 0..Len(last.text) :
               (/\ index < Len(last.text) => last.text[index + 1] # "lo_surrogate"
                /\ ByteOffsetOf(last.text, index) = last.target) =>
                   last.answer[1] = index
        /\ last.target <= 0 => last.answer[1] = 0
        /\ last.target >= ByteOffsetOf(last.text, Len(last.text)) =>
               last.answer[1] = Len(last.text)
        /\ last.answer[1] <= last.answer[2]

\* C19 witness: in a text of a four-byte, a two-byte and a three-byte character,
\* the byte offset 6 is code-unit index 3.
C19_Witness ==
    /\ last.op = "toIndex"
    /\ last.text = <<"hi_surrogate", "lo_surrogate", "e_acute">>
    /\ last.target = 6
    /\ last.answer = <<3, 3>>

\* The qualifying handlers of a text: a directive right after an opening brace.
HandlerCount(code) ==
    Cardinality({p \in 2..Len(code) : code[p] = UseClientString /\ code[p - 1] = "{"})

\* C20: whatever byte order mark, shebang, whitespace and comments stand before
\* the first token, whatever multi-byte characters stand before a handler and
\* whatever base the parser counts from, a call that returns code has planned one
\* range per handler, and the range of an expression handler is exactly the
\* code-unit range of the handler's text, from its first character to just past
\* its closing brace.
C20_RangeIsHandlerText ==
    (Transformed1 /\ last.result.outcome = "code") =>
        LET rs == last.result.replacements
            code == Code[last.src]
        IN  /\ Len(rs) = HandlerCount(code)
            /\ Len(last.result.calls) = 2 * Len(rs)
            /\ \A k \in DOMAIN rs :
                   rs[k].replacement = UrlExpression(last.result.emitted[k].ref) =>
                       /\ rs[k].start = last.result.calls[2 * k].handler[1]
                       /\ rs[k].end = last.result.calls[2 * k].handler[2]
                       /\ code[rs[k].start + 1] \in {"(", "function"}
                       /\ code[rs[k].end] = "}"
                       /\ HandlerCount(Slice(code, rs[k].start, rs[k].end)) >= 1

\* C20 witness: a byte order mark, a shebang line, a line comment and a block
\* comment with multi-byte characters, then a string of multi-byte characters,
\* parsed from base 7: the handler's range is [31, 41).
C20_Witness ==
    /\ Transformed1
    /\ last.src = [lead |-> <<"BOM", "#", "!", "x", "\n", "/", "/", "euro", "\n",
                              "/", "*", "e_acute", "hi_surrogate", "lo_surrogate", "*", "/">>,
                   stmts |-> <<"ConstUnicode", "ArrowHandler">>, base |-> 7]
    /\ last.result.outcome = "code"
    /\ Len(last.result.replacements) = 1
    /\ last.result.replacements[1].start = 31
    /\ last.result.replacements[1].end = 41
    /\ SubSeq(last.result.code, 28, 35)
           = <<"export", "const", "h", "=", "new URL(import.meta.ROLLUP_FILE_URL_", "ref_0",
               ").pathname", ";">>

TypeOnlyNames == {"Foo", "Bar"}      \* imported by `import type` or as `type X`

Occurs(tok, text) == Cardinality({k \in DOMAIN text : text[k] = tok})

\* C21: a type-only import declaration and a type-only specifier give no Import
\* Table entry; a handler that names them in parameter and return annotations only
\* has none of them among its free names, none is reported as unresolved, the
\* `import type` statement is in no client module, and the statement with the
\* type-only specifier is there only for the value binding the handler calls.
C21_TypeOnlyNamesStayOut ==
    (Transformed1 /\ Parses(last.src)) =>
        /\ DOMAIN Tables[last.src].importMap \cap TypeOnlyNames = {}
        /\ \A k \in DOMAIN Facts[last.src].handlers :
               /\ Facts[last.src].handlers[k].freeRefs \cap TypeOnlyNames = {}
               /\ Range(Facts[last.src].handlers[k].unresolved) \cap TypeOnlyNames = {}
        /\ \A m \in Range(last.result.warns) \cup {last.result.thrown} :
               m.kind = "references values" => Range(m.detail) \cap TypeOnlyNames = {}
        /\ \A k \in DOMAIN last.result.stored :
               /\ "'./t.ts'" \notin Range(last.result.stored[k].code)
               /\ "'./c.ts'" \in Range(last.result.stored[k].code) =>
                      Occurs("submit", last.result.stored[k].code) >= 2

C21_Witness ==
    /\ Transformed1
    /\ last.src.stmts = <<"ImportTypeFoo", "ImportTypeBar", "FnTyped">>
    /\ EffectivePolicy = "error"
    /\ last.result.outcome = "code"
    /\ DOMAIN Tables[last.src].importMap = {"submit"}
    /\ Len(last.result.stored) = 1
    /\ last.result.stored[1].code =
           <<"\"use client\";", "\n", "\n",
             "import", "{", "type", "Bar", ",", "submit", "}", "from", "'./c.ts'", ";",
             "\n", "\n",
             "export", "default", "function", "typed", "(", "value", ":", "Foo", ")",
             ":", "Bar", "{", "return", "submit", "(", "value", ")", ";", "}", ";", "\n",
             "\n">>

\* C22: a second transform of the code a first transform returned, with the same
\* id, returns nothing and emits no chunk, or returns the same code; the returned
\* code, where it is parsed again, has no handler left.
C22_SecondPassChangesNothing ==
    last.op = "transformAgain" =>
        /\ \/ /\ last.result.outcome = "nothing"
              /\ last.result.emitted = <<>>
              /\ last.result.stored = <<>>
           \/ /\ last.result.outcome = "code"
              /\ last.result.code = last.text
        /\ (last.src.stmts # <<>> /\ Parses(last.src)) => Facts[last.src].found = 0

NoRepeat(seq) == \A i, j \in DOMAIN seq : seq[i] = seq[j] => i = j

TimesIn(part, text) ==
    Cardinality({i \in 1..(Len(text) - Len(part) + 1) : SubSeq(text, i, i + Len(part) - 1) = part})

\* C23: for every handler of every module, also with self-referential and
\* mutually recursive declarations and a declaration under two names, the worklist
\* ends having put each name on `pending` at most once and having recorded each
\* declaration at most once, and no top-level statement of the source stands more
\* than once in a stored client module.
C23_WorklistVisitsOnce ==
    (Transformed1 /\ Parses(last.src)) =>
        /\ \A k \in DOMAIN Facts[last.src].handlers :
               /\ NoRepeat(Facts[last.src].handlers[k].enqueued)
               /\ NoRepeat([j \in DOMAIN Facts[last.src].handlers[k].recorded |->
                               Facts[last.src].handlers[k].recorded[j].node])
        /\ \A k \in DOMAIN last.result.stored :
           \A j \in DOMAIN last.src.stmts :
               TimesIn(Slice(Code[last.src], StmtAt[last.src][j][1], StmtAt[last.src][j][2]),
                       last.result.stored[k].code) <= 1

\* C23 witness: the handler calls ping(a, b); ping and pong call each other, self
\* calls itself, and one declaration binds both a and b.
C23_Witness ==
    /\ Transformed1
    /\ last.src.stmts = <<"FnPing", "FnPong", "FnSelf", "ConstPair", "ArrowPing">>
    /\ last.result.outcome = "code"
    /\ Range(Facts[last.src].handlers[1].enqueued) = {"ping", "pong", "a", "b", "self"}
    /\ Len(Facts[last.src].handlers[1].recorded) = 4
    /\ Len(last.result.stored) = 1
    /\ last.result.stored[1].code =
           <<"\"use client\";", "\n", "\n",
             "function", "ping", "(", ")", "{", "return", "pong", "(", ")", ";", "}", "\n", "\n",
             "function", "pong", "(", ")", "{", "return", "ping", "(", ")", ";", "}", "\n", "\n",
             "function", "self", "(", ")", "{", "return", "self", "(", ")", ";", "}", "\n", "\n",
             "const", "a", "=", "self", ",", "b", "=", "a", ";", "\n", "\n",
             "export", "default", "(", ")", "=>", "{", "return", "ping", "(", "a", ",", "b", ")",
             ";", "}", ";", "\n", "\n">>

\* C24: a stored client module is the "use client"; line and a blank line, then
\* the import statements it holds in the order of the source, one per line, and a
\* blank line if there are any, then the declarations it holds in the order of the
\* source, a blank line between them and one after them if there are any, then
\* the default export; the order in which the worklist met them plays no part.
C24_ModuleLayout ==
    Transformed1 =>
        \A k \in DOMAIN last.result.stored :
            LET code == last.result.stored[k].code
                TextOf(j) == Slice(Code[last.src], StmtAt[last.src][j][1], StmtAt[last.src][j][2])
                held == SelectSeq([j \in DOMAIN last.src.stmts |-> j],
                                  LAMBDA j : TimesIn(TextOf(j), code) >= 1)
                imports == SelectSeq(held, LAMBDA j : IsImportTemplate(last.src.stmts[j]))
                decls == SelectSeq(held, LAMBDA j : ~IsImportTemplate(last.src.stmts[j]))
                top == <<"\"use client\";", "\n", "\n">>
                       \o (IF imports = <<>> THEN <<>>
                           ELSE JoinWith([i \in DOMAIN imports |-> TextOf(imports[i])], <<"\n">>)
                                \o <<"\n", "\n">>)
                       \o (IF decls = <<>> THEN <<>>
                           ELSE JoinWith([i \in DOMAIN decls |-> TextOf(decls[i])], <<"\n", "\n">>)
                                \o <<"\n", "\n">>)
                       \o <<"export", "default">>
            IN  /\ Len(code) >= Len(top) + 2
                /\ SubSeq(code, 1, Len(top)) = top
                /\ TimesIn(<<"export", "default">>, code) = 1
                /\ SubSeq(code, Len(code) - 1, Len(code)) = <<"\n", "\n">>

\* C24 witness: the worklist records helper before label and meets the format
\* import before the submit import; the module has them in the order of the source.
C24_Witness ==
    /\ Transformed1
    /\ last.src.stmts = <<"ImportSubmit", "ImportFormat", "ConstLabel", "ConstHelper", "ArrowBoth">>
    /\ last.result.outcome = "code"
    /\ Len(Facts[last.src].handlers[1].recorded) = 2
    /\ Facts[last.src].handlers[1].recorded[1].declared = {"helper"}
    /\ Facts[last.src].handlers[1].recorded[2].declared = {"label"}
    /\ last.result.stored[1].code =
           <<"\"use client\";", "\n", "\n",
             "import", "{", "submit", "}", "from", "'./c.ts'", ";", "\n",
             "import", "{", "format", "}", "from", "'./f.ts'", ";", "\n", "\n",
             "const", "label", "=", "'x'", ";", "\n", "\n",
             "const", "helper", "=", "format", "(", "label", ")", ";", "\n", "\n",
             "export", "default", "(", ")", "=>", "{",
             "return", "submit", "(", "helper", ")", ";", "}", ";", "\n", "\n">>

\* The call without the handler whose span is out of range.
WithoutSkewed ==
    TransformWith([Facts[last.src] EXCEPT
                      !.handlers = SelectSeq(@, LAMBDA f : f # Facts[last.src].handlers[last.target])],
                  last.id, options["A"], last.host)

\* C25: a handler that passed the callable guard and whose computed span is out of
\* range or empty is passed over: nothing is stored or emitted for it, no
\* replacement is planned for its span, it raises no error (also with unresolved
\* names under the error policy), and the call stores, emits, plans, returns and
\* throws what it does for the other handlers alone.
C25_BadSpanIsSkipped ==
    (last.op = "transformSkewed" /\ ~Facts[last.src].handlers[last.target].unsafe) =>
        /\ \A c \in DOMAIN last.result.calls :
               last.result.calls[c].handler # Facts[last.src].handlers[last.target].nodeAt
        /\ \A c \in DOMAIN last.result.replacements :
               [start |-> last.result.replacements[c].start,
                end |-> last.result.replacements[c].end] # last.span
        /\ last.result.stored = WithoutSkewed.stored
        /\ last.result.emitted = WithoutSkewed.emitted
        /\ last.result.replacements = WithoutSkewed.replacements
        /\ last.result.outcome = WithoutSkewed.outcome
        /\ last.result.thrown = WithoutSkewed.thrown
        /\ last.result.code = WithoutSkewed.code

\* C25 witness: under the error policy the handler with unresolved names has an
\* empty span; the call returns code with the other handler replaced.
C25_Witness ==
    /\ last.op = "transformSkewed"
    /\ last.src.stmts = <<"ArrowRefs", "ArrowHandler">>
    /\ Facts[last.src].handlers[last.target].unresolved # <<>>
    /\ last.span = [start |-> 4, end |-> 4]
    /\ options["A"].unresolved = "error"
    /\ last.result.outcome = "code"
    /\ Len(last.result.stored) = 1
    /\ Len(last.result.emitted) = 1
    /\ Len(last.result.replacements) = 1
    /\ "submit" \notin Range(last.result.stored[1].code)

\* The names a handler of the template references as values without declaring
\* them in a scope around the reference, a block's declarations counting for the
\* whole block.
FreeOf(t) ==
    CASE t = "ArrowRefs" -> {"submit", "label"}
      [] t = "ArrowHelper" -> {"fetch", "helper"}
      [] t = "FnTyped" -> {"submit"}
      [] t = "ArrowPing" -> {"ping", "a", "b"}
      [] t = "ArrowBoth" -> {"submit", "helper"}
      [] t = "ArrowLocal" -> {"label", "fetch"}
      [] OTHER -> {}

\* C26: the free names collected for a handler are exactly the names it
\* references as values that no scope around the reference declares; a name
\* declared further down in the same block is not among them.
C26_FreeNamesAreExact ==
    (Transformed1 /\ Parses(last.src)) =>
        \A k \in DOMAIN Facts[last.src].handlers :
            Facts[last.src].handlers[k].freeRefs
                = FreeOf(last.src.stmts[StatementOf(last.src, Facts[last.src].handlers[k].nodeAt[1])])

\* The facts of the module the last call worked on, and the handlers at which
\* that call has to fail: the ones that fail the callable guard and, under the
\* error policy, the ones with unresolved names whose span is in range.
CallFacts ==
    IF last.op = "transformSkewed"
    THEN [Facts[last.src] EXCEPT !.handlers[last.target].span = last.span]
    ELSE Facts[last.src]

FatalAt(f) ==
    \/ f.unsafe
    \/ /\ f.unresolved # <<>> /\ EffectivePolicy = "error"
       /\ ~(f.span.start < 0 \/ f.span.end > f.codeLength \/ f.span.start >= f.span.end)

FatalHandlers == {k \in DOMAIN CallFacts.handlers : FatalAt(CallFacts.handlers[k])}

FatalCondition ==
    IF ~Parses(last.src) THEN options["A"].strict
    ELSE IF CallFacts.found = 0 THEN FALSE
    ELSE CallFacts.sideEffectImports > 0 \/ FatalHandlers # {}

\* C27: a transform call throws exactly when one of the four fatal conditions
\* holds; the thrown message carries the tag [use-client] and the absolute module
\* id and is passed to the host's error first when the host has one, the call
\* returns no code, and the only registry stores and chunk emissions of the call
\* are those of the handlers processed before the failing one.
C27_FatalReportsThenThrows ==
    (last.op \in {"transform", "transformSkewed"} /\ ~last.id.virtual
     /\ maybeContainsUseClient(Code[last.src])) =>
        /\ FatalCondition <=> last.result.outcome = "throw"
        /\ last.result.outcome # "throw" =>
               last.result.thrown = NoMessage /\ last.result.hostErrors = <<>>
        /\ last.result.outcome = "throw" =>
               /\ last.result.thrown.tag = "[use-client]"
               /\ last.result.thrown.id = AbsoluteId
               /\ last.result.thrown.kind \in
                      {"failed to parse", "side-effect imports are not allowed",
                       "is used as a callable value", "references values"}
               /\ last.result.hostErrors
                      = IF last.host.error THEN <<last.result.thrown>> ELSE <<>>
               /\ last.result.code = <<>>
               /\ IF ~Parses(last.src) \/ CallFacts.sideEffectImports > 0
                  THEN last.result.calls = <<>>
                  ELSE \A c \in DOMAIN last.result.calls :
                           \E k \in DOMAIN CallFacts.handlers :
                               /\ CallFacts.handlers[k].nodeAt = last.result.calls[c].handler
                               /\ \A j \in FatalHandlers : k < j

\* C27 witness: the host has an error function that returns; the second handler
\* processed has unresolved names under the error policy, so the call throws after
\* the first handler's chunk was stored and emitted, and nothing follows.
C27_Witness ==
    /\ Transformed1
    /\ last.src.stmts = <<"ArrowRefs", "ArrowHandler">>
    /\ last.host.error
    /\ EffectivePolicy = "error"
    /\ last.result.outcome = "throw"
    /\ last.result.thrown.kind = "references values"
    /\ last.result.hostErrors = <<last.result.thrown>>
    /\ Len(last.result.calls) = 2
    /\ last.result.code = <<>>

\* What resolveId owes for an inline importer and elsewhere; the parameter says
\* what an id that is neither absolute nor relative yields after the host
\* resolver answered null.
ResolveContract(otherYields(_)) ==
    last.op = "resolveId" =>
        IF last.importer # NoId /\ "prefix" \in DOMAIN last.importer
        THEN /\ last.resolver =>
                    last.hostCalls = <<[id |-> last.id,
                                        importer |-> [abs |-> TRUE, dir |-> last.importer.dir,
                                                      base |-> last.importer.base,
                                                      hash |-> last.importer.hash,
                                                      ext |-> last.importer.ext],
                                        skipSelf |-> TRUE]>>
             /\ ~last.resolver => last.hostCalls = <<>>
             /\ last.hostAnswer # NoId => last.answer = last.hostAnswer
             /\ last.hostAnswer = NoId =>
                    last.answer =
                        IF "prefix" \in DOMAIN last.id THEN otherYields(last.id)
                        ELSE IF last.id.abs THEN last.id
                        ELSE IF Head(last.id.dir) = "."
                        THEN [last.id EXCEPT !.abs = TRUE,
                                             !.dir = last.importer.dir \o Tail(last.id.dir)]
                        ELSE otherYields(last.id)
        ELSE /\ last.hostCalls = <<>>
             /\ "prefix" \notin DOMAIN last.id => last.answer = NoId

YieldsNull(id) == NoId
YieldsNullUnlessInline(id) == IF "prefix" \in DOMAIN id THEN id ELSE NoId

\* C28 as stated: with an inline importer the host resolver is asked for (id, the
\* importer's path without prefix and query string, skipSelf true) and its answer
\* is returned unless it is null; then an absolute id is returned as it is, an id
\* starting with "." is resolved against the directory of that path, and any
\* other id yields null. Without an inline importer the host is not asked and an
\* id without the prefix yields null.
C28_Original == ResolveContract(YieldsNull)

\* C28 amended: the same, except that after a null answer an id that is itself
\* an inline module id is returned unchanged; a host without a resolver is not
\* asked and counts as answering null.
C28_ResolveIdDelegatesThenFallsBack == ResolveContract(YieldsNullUnlessInline)

\* C28 witness: a relative id imported from an inline module whose id carries a
\* query string; the host resolver is asked with the bare path, answers null, and
\* the id is resolved against the directory of that path.
C28_Witness ==
    /\ last.op = "resolveId"
    /\ last.importer # NoId /\ "query" \in DOMAIN last.importer
    /\ last.id = PathId(FALSE, FALSE, <<".", "b">>)
    /\ last.resolver /\ last.hostAnswer = NoId
    /\ Len(last.hostCalls) = 1
    /\ "query" \notin DOMAIN last.hostCalls[1].importer
    /\ last.answer = PathId(FALSE, TRUE, <<"c", "b">>)

\* C29: whenever transform returns code, every reference token the host gave for
\* a chunk emitted in the call stands exactly once in the returned code, inside a
\* URL expression, and as many replacements were applied as chunks were emitted.
C29_OneTokenPerChunk ==
    (Transformed1 /\ last.result.outcome = "code") =>
        /\ Len(last.result.emitted) = Len(last.result.replacements)
        /\ \A k \in DOMAIN last.result.emitted :
               /\ Occurs(last.result.emitted[k].ref, last.result.code) = 1
               /\ TimesIn(UrlExpression(last.result.emitted[k].ref), last.result.code) = 1

\* C30: a transform call that throws for a handler, on a callable use of its name
\* or on unresolved names under the error policy, has stored nothing in the
\* registry and emitted no chunk, whatever other handlers the module holds.
C30_AbortLeavesNoTrace ==
    (/\ Transformed1
     /\ last.result.outcome = "throw"
     /\ last.result.thrown.kind \in {"is used as a callable value", "references values"}) =>
        NothingDone


====
